---- MODULE Spec2Model ----
(***************************************************************************)
(* Verification model of gptui: the chunk parser and stream engine of      *)
(* src/src/client.rs, and the UI loop of src/src/tui.rs.                    *)
(*                                                                         *)
(* Text is a sequence of one-character strings.  Option<T> is a sequence   *)
(* of length 0 (None) or 1 (Some).                                         *)
(*                                                                         *)
(* Wire records are written in a reduced JSON syntax: "{" stands for the   *)
(* head of a completion chunk up to the value of choices[0].delta.content, *)
(* a quoted string is that value, and "}" stands for the rest of the       *)
(* object.  {"ab"} is a chunk with token ab, {} a chunk without content.   *)
(***************************************************************************)
EXTENDS Integers, Sequences, FiniteSets, TLC

NL == "\n"
SP == " "
QT == "\""

None == <<>>
Some(x) == <<x>>

----------------------------------------------------------------------------
(* str helpers used by try_parse_chunks *)

IsWs(c) == c \in {SP, NL}

RECURSIVE TrimStart(_)
TrimStart(s) ==
  IF s # <<>> /\ IsWs(Head(s)) THEN TrimStart(Tail(s)) ELSE s

RECURSIVE TrimEnd(_)
TrimEnd(s) ==
  IF s # <<>> /\ IsWs(s[Len(s)]) THEN TrimEnd(SubSeq(s, 1, Len(s) - 1)) ELSE s

trim(s) == TrimEnd(TrimStart(s))

StartsWith(s, p) == Len(s) >= Len(p) /\ SubSeq(s, 1, Len(p)) = p

RECURSIVE trim_start_matches(_, _)
trim_start_matches(s, p) ==
  IF StartsWith(s, p)
    THEN trim_start_matches(SubSeq(s, Len(p) + 1, Len(s)), p)
    ELSE s

\* index of the first c in s at or after i, 0 when there is none
IndexFrom(s, c, i) ==
  IF \E j \in i..Len(s) : s[j] = c
    THEN CHOOSE j \in i..Len(s) : s[j] = c /\ \A k \in i..(j - 1) : s[k] # c
    ELSE 0

RECURSIVE lines(_)
lines(s) ==
  IF s = <<>> THEN <<>>
  ELSE LET i == IndexFrom(s, NL, 1) IN
       IF i = 0 THEN <<s>>
       ELSE <<SubSeq(s, 1, i - 1)>> \o lines(SubSeq(s, i + 1, Len(s)))

RECURSIVE join(_, _)
join(ls, sep) ==
  IF ls = <<>> THEN <<>>
  ELSE IF Len(ls) = 1 THEN ls[1]
  ELSE ls[1] \o <<sep>> \o join(Tail(ls), sep)

----------------------------------------------------------------------------
(* serde_json::from_str::<CompletionChunk> on the reduced record syntax *)

DataTag == <<"d", "a", "t", "a", ":">>
DoneLit == <<"[", "D", "O", "N", "E", "]">>

\* first index at or after i that is not JSON whitespace (Len(s)+1 at the end)
SkipWs(s, i) ==
  IF \E j \in i..Len(s) : ~IsWs(s[j])
    THEN CHOOSE j \in i..Len(s) : ~IsWs(s[j]) /\ \A k \in i..(j - 1) : IsWs(s[k])
    ELSE Len(s) + 1

DecodeErr(k) == [kind |-> k, chunk |-> [content |-> None]]
DecodeOk(c) == [kind |-> "Ok", chunk |-> [content |-> c]]

\* a value that is not an object or an array: invalid type, or the error met
\* while reading it
PeekInvalidType(s, i) ==
  CASE s[i] = QT -> IF IndexFrom(s, QT, i + 1) = 0 THEN DecodeErr("Eof") ELSE DecodeErr("Data")
    [] s[i] = "t" -> IF i = Len(s) THEN DecodeErr("Eof") ELSE DecodeErr("Syntax")
    [] OTHER -> DecodeErr("Syntax")

\* after the closing brace: only whitespace may follow
EndOfRecord(s, i, c) ==
  IF SkipWs(s, i) > Len(s) THEN DecodeOk(c) ELSE DecodeErr("Syntax")

DecodeMap(s, i0) ==
  LET i == SkipWs(s, i0) IN
  IF i > Len(s) THEN DecodeErr("Eof")
  ELSE CASE s[i] = "}" -> EndOfRecord(s, i + 1, None)
         [] s[i] = QT ->
              LET e == IndexFrom(s, QT, i + 1) IN
              IF e = 0 THEN DecodeErr("Eof")
              ELSE LET j == SkipWs(s, e + 1) IN
                   IF j > Len(s) THEN DecodeErr("Eof")
                   ELSE IF s[j] = "}"
                     THEN EndOfRecord(s, j + 1, Some(SubSeq(s, i + 1, e - 1)))
                     ELSE DecodeErr("Syntax")
         [] OTHER -> DecodeErr("Syntax")

DecodeSeq(s, i0) ==
  LET i == SkipWs(s, i0) IN
  IF i > Len(s) THEN DecodeErr("Eof")
  ELSE CASE s[i] = "]" -> DecodeErr("Data")
         [] s[i] = QT ->
              LET e == IndexFrom(s, QT, i + 1) IN
              IF e = 0 THEN DecodeErr("Eof")
              ELSE LET j == SkipWs(s, e + 1) IN
                   IF j > Len(s) THEN DecodeErr("Eof")
                   ELSE IF s[j] = "]" THEN DecodeErr("Data") ELSE DecodeErr("Syntax")
         [] OTHER -> PeekInvalidType(s, i)

from_str(s) ==
  LET i == SkipWs(s, 1) IN
  IF i > Len(s) THEN DecodeErr("Eof")
  ELSE CASE s[i] = "{" -> DecodeMap(s, i + 1)
         [] s[i] = "[" -> DecodeSeq(s, i + 1)
         [] OTHER -> PeekInvalidType(s, i)

\* mutant: a chunk without content yields the empty token
token_Blank(chunk) == IF chunk.content = None THEN Some(<<>>) ELSE chunk.content

\* CompletionChunk::token
token(chunk) == chunk.content

----------------------------------------------------------------------------
(* try_parse_chunks *)

MapSeq(f(_), s) == [i \in 1..Len(s) |-> f(s[i])]

NormLine(ln) == trim(trim_start_matches(trim(ln), DataTag))

NonEmpty(ln) == ln # <<>>

input_lines(input) == SelectSeq(MapSeq(NormLine, lines(input)), NonEmpty)

\* mutant: the remainder keeps the incomplete line only
StopEof_OnlyLine(ls, i, valid_chunks) ==
  [err |-> FALSE, valid |-> valid_chunks, remainder |-> Some(ls[i])]

\* Err(e) if e.is_eof(): the remainder is this line and the lines after it
StopEof(ls, i, valid_chunks) ==
  [err |-> FALSE, valid |-> valid_chunks,
   remainder |-> Some(join(SubSeq(ls, i, Len(ls)), NL))]

\* mutant: the literal is compared with the tag still on it
IsDone_Tagged(r, line) ==
  r.kind = "Syntax" /\ line = DataTag \o <<SP>> \o DoneLit

\* Err(e) if e.is_syntax() && *line == "[DONE]"
IsDone(r, line) == r.kind = "Syntax" /\ line = DoneLit

StopDone(valid_chunks) ==
  [err |-> FALSE, valid |-> valid_chunks, remainder |-> None]

\* mutant: a bad line ends the loop without an error
StopErr_KeepValid(valid_chunks) ==
  [err |-> FALSE, valid |-> valid_chunks, remainder |-> None]

\* Err(e) => return Err(..)
StopErr(valid_chunks) ==
  [err |-> TRUE, valid |-> <<>>, remainder |-> None]

RECURSIVE ParseLoop(_, _, _)
ParseLoop(ls, i, valid_chunks) ==
  IF i > Len(ls) THEN [err |-> FALSE, valid |-> valid_chunks, remainder |-> None]
  ELSE LET r == from_str(ls[i]) IN
       CASE r.kind = "Ok" -> ParseLoop(ls, i + 1, Append(valid_chunks, r.chunk))
         [] r.kind = "Eof" -> StopEof(ls, i, valid_chunks)
         [] IsDone(r, ls[i]) -> StopDone(valid_chunks)
         [] OTHER -> StopErr(valid_chunks)

try_parse_chunks(input) ==
  LET r == ParseLoop(input_lines(input), 1, <<>>) IN
  [err |-> r.err,
   chunks |-> IF r.valid = <<>> THEN None ELSE Some(r.valid),
   remainder |-> r.remainder]

----------------------------------------------------------------------------
(* bounds *)

MaxLines == 3        \* lines of a text handed to try_parse_chunks
MaxBodyLines == 2    \* lines of an HTTP response body
MaxStreams == 2      \* reply streams started in one run
MaxMsgs == 2         \* committed messages of the thread at start

ChanCap == 100       \* bounded(100)

----------------------------------------------------------------------------
(* texts: lines as they appear on the wire, each with what it is *)

RecAB == <<"{", QT, "a", SP, "b", QT, "}">>
RecB == <<"{", QT, "b", QT, "}">>
RecNoContent == <<"{", "}">>
PartStr == <<"{", QT, "a">>
Tagged(s) == DataTag \o <<SP>> \o s

Line(raw, norm, class, content) ==
  [raw |-> raw, norm |-> norm, class |-> class, content |-> content]

LineTemplates ==
  { Line(Tagged(RecAB), RecAB, "record", Some(<<"a", SP, "b">>)),
    Line(<<SP>> \o RecB \o <<SP>>, RecB, "record", Some(<<"b">>)),
    Line(Tagged(RecNoContent), RecNoContent, "record", None),
    Line(Tagged(DoneLit), DoneLit, "done", None),
    Line(<<>>, <<>>, "blank", None),
    Line(<<SP, SP>>, <<>>, "blank", None),
    Line(PartStr, PartStr, "partial", None),
    Line(Tagged(PartStr \o <<SP>>), PartStr, "partial", None),
    Line(<<"{">>, <<"{">>, "partial", None),
    Line(<<"d", "a">>, <<"d", "a">>, "bad", None),
    Line(RecB \o <<"a">>, RecB \o <<"a">>, "bad", None),
    Line(<<"[", "]">>, <<"[", "]">>, "bad", None) }

SeqsUpTo(S, n) == UNION { [1..k -> S] : k \in 0..n }

Raw(l) == l.raw
TextOf(ls) == join(MapSeq(Raw, ls), NL)

BodyTemplates ==
  { l \in LineTemplates :
      l.raw \in {Tagged(RecAB), Tagged(RecNoContent), Tagged(DoneLit), <<>>, PartStr} }

Bodies == { TextOf(ls) : ls \in SeqsUpTo(BodyTemplates, MaxBodyLines) }

----------------------------------------------------------------------------
(* thread *)

Roles == {"User", "System", "Assistant"}
Msg(role, content) == [role |-> role, content |-> content, tokens |-> None]

is_user(m) == m.role = "User"

\* mutant: the first message instead of the last
last_message_First(msgs) == IF msgs = <<>> THEN None ELSE Some(msgs[1])

last_message(msgs) == IF msgs = <<>> THEN None ELSE Some(msgs[Len(msgs)])

\* a Thread with the given committed messages and nothing else
NewThread(msgs) ==
  [messages |-> msgs, incoming |-> None, title |-> None, summaries |-> <<>>]

----------------------------------------------------------------------------
(* state *)

VARIABLES
  p_lines,      \* parser harness: the lines the input was built from
  p_result,     \* parser harness: Option of the result of try_parse_chunks
  thread,       \* the active Thread: messages, incoming, title, summaries
  call_result,  \* result of a direct call of stream_thread_reply
  client_rx,    \* the receiver held by that caller: 0 or a stream
  nstreams,     \* reply streams started so far
  task,         \* per stream: the background task and its channel
  app,          \* the fields of App
  run,          \* App::run: where it is, what it returned, the terminal mode
  meta,         \* the title and summary channels held by the App
  clipboard,    \* what clip::copy stored last
  shown,        \* Option of what tui_formatted_messages returned last
  message,      \* Option of a Message with the fields update_blocks derives
  session,      \* Session::threads: thread id -> Thread
  db,           \* the tables of the store
  io,           \* Option of the result of the last store or session call
  now           \* Utc::now() in milliseconds

parseVars == <<p_lines, p_result>>
threadVars == <<thread>>
clientVars == <<call_result, client_rx>>
engineVars == <<nstreams, task>>
appVars == <<app, run, meta, clipboard>>
dispVars == <<shown, message>>
storeVars == <<session, db, io, now>>
vars == <<parseVars, threadVars, clientVars, engineVars, appVars, dispVars, storeVars>>

\* the store right after init_db created the tables
EmptyDb == [thread |-> {}, message |-> <<>>, title |-> {}, summary |-> {}]

Streams == 1..MaxStreams

\* pc: unused, spawned (before the response), reading (awaiting the next
\* bytes), sending (inside the for loop over chunks), done, failed.
\* body, recs and sent are history: the whole response body, the records the
\* parser has returned so far and every item the channel has accepted.
IdleTask ==
  [pc |-> "unused", fail |-> "none", body |-> <<>>, rest |-> <<>>, buf |-> <<>>,
   pending |-> <<>>, chan |-> <<>>, rx_alive |-> FALSE,
   recs |-> <<>>, sent |-> <<>>]

----------------------------------------------------------------------------
(* stream engine: stream_thread_reply and its background task *)

\* the guard of stream_thread_reply and create_client()?: Ok iff the channel
\* and the task are created
stream_thread_reply(msgs, client_ok) ==
  /\ last_message(msgs) # None
  /\ is_user(last_message(msgs)[1])
  /\ client_ok

\* (tx, rx) = bounded(100), thread::spawn
SpawnTask(tk, n) ==
  [tk EXCEPT ![n] = [IdleTask EXCEPT !.pc = "spawned", !.rx_alive = TRUE]]

\* mutant: the sentinel is sent on the way out of a failed task
Fail_Sentinel(t, why) ==
  [t EXCEPT !.pc = "failed", !.fail = why, !.pending = <<>>,
            !.chan = Append(@, None), !.sent = Append(@, None)]

\* an error leaves block_on through `?`: the task ends and tx is dropped
Fail(t, why) == [t EXCEPT !.pc = "failed", !.fail = why, !.pending = <<>>]

\* mutant: the channel has no bound
CanSend_Unbounded(t) == TRUE

\* tx.send(item)?: an error once the receiver is dropped, else the item is
\* queued (the caller waits in CanSend while the channel is full)
CanSend(t) == ~t.rx_alive \/ Len(t.chan) < ChanCap

\* mutant: the item is queued whether or not a receiver is left
Send_IgnoreDrop(t, item, next_pc) ==
  [t EXCEPT !.chan = Append(@, item), !.sent = Append(@, item), !.pc = next_pc]

Send(t, item, next_pc) ==
  IF ~t.rx_alive THEN Fail(t, "send")
  ELSE [t EXCEPT !.chan = Append(@, item), !.sent = Append(@, item), !.pc = next_pc]

\* the tokens of the records of one parse, in order
RECURSIVE Tokens(_)
Tokens(cs) ==
  IF cs = <<>> THEN <<>>
  ELSE (IF token(Head(cs)) = None THEN <<>> ELSE <<token(Head(cs))[1]>>) \o Tokens(Tail(cs))

Unwrap(opt) == IF opt = None THEN <<>> ELSE opt[1]

\* mutant: only the last record of a parse is handed to the for loop
ParseStep_LastOnly(t, k) ==
  LET input == t.buf \o SubSeq(t.rest, 1, k)
      r == try_parse_chunks(input)
      left == SubSeq(t.rest, k + 1, Len(t.rest))
      toks == Tokens(Unwrap(r.chunks))
  IN IF r.err
       THEN [t EXCEPT !.pc = "failed", !.fail = "parse", !.pending = <<>>,
                      !.rest = left, !.buf = input]
       ELSE [t EXCEPT !.rest = left,
                      !.buf = Unwrap(r.remainder),
                      !.pending = IF toks = <<>> THEN <<>> ELSE <<toks[Len(toks)]>>,
                      !.recs = @ \o Unwrap(r.chunks),
                      !.pc = IF toks = <<>> THEN "reading" ELSE "sending"]

\* one round of the while loop up to the for loop: push the bytes, parse,
\* keep the remainder
ParseStep(t, k) ==
  LET input == t.buf \o SubSeq(t.rest, 1, k)
      r == try_parse_chunks(input)
      left == SubSeq(t.rest, k + 1, Len(t.rest))
  IN IF r.err
       THEN [Fail(t, "parse") EXCEPT !.rest = left, !.buf = input]
       ELSE [t EXCEPT !.rest = left,
                      !.buf = Unwrap(r.remainder),
                      !.pending = Tokens(Unwrap(r.chunks)),
                      !.recs = @ \o Unwrap(r.chunks),
                      !.pc = IF Tokens(Unwrap(r.chunks)) = <<>> THEN "reading" ELSE "sending"]

\* client.post(..).send().await? and error_for_status()?
Respond(s, bodies) ==
  /\ task[s].pc = "spawned"
  /\ \/ \E b \in bodies :
          task' = [task EXCEPT ![s] = [@ EXCEPT !.pc = "reading", !.body = b, !.rest = b]]
     \/ \E why \in {"network", "status"} :
          task' = [task EXCEPT ![s] = Fail(@, why)]
  /\ UNCHANGED <<nstreams, parseVars, threadVars, clientVars, appVars, dispVars, storeVars>>

\* stream.next() yields bytes: any non-empty prefix of what is left; with
\* split false the transport delivers what is left in one piece
ReadChunk(s, split) ==
  /\ task[s].pc = "reading"
  /\ \E k \in 1..Len(task[s].rest) :
       /\ split \/ k = Len(task[s].rest)
       /\ task' = [task EXCEPT ![s] = ParseStep(@, k)]
  /\ UNCHANGED <<nstreams, parseVars, threadVars, clientVars, appVars, dispVars, storeVars>>

\* stream.next() yields an error: bytes_result?
ReadError(s) ==
  /\ task[s].pc = "reading"
  /\ task' = [task EXCEPT ![s] = Fail(@, "network")]
  /\ UNCHANGED <<nstreams, parseVars, threadVars, clientVars, appVars, dispVars, storeVars>>

\* tx.send(Some(s))? for the next token of the for loop
SendToken(s) ==
  /\ task[s].pc = "sending"
  /\ CanSend(task[s])
  /\ task' = [task EXCEPT ![s] =
       [Send(@, Some(Head(@.pending)),
             IF Len(@.pending) = 1 THEN "reading" ELSE "sending")
          EXCEPT !.pending = IF @ = <<>> THEN <<>> ELSE Tail(@)]]
  /\ UNCHANGED <<nstreams, parseVars, threadVars, clientVars, appVars, dispVars, storeVars>>

\* stream.next() yields None: tx.send(None)?, Ok(())
EndOfBody(s) ==
  /\ task[s].pc = "reading"
  /\ task[s].rest = <<>>
  /\ CanSend(task[s])
  /\ task' = [task EXCEPT ![s] = Send(@, None, "done")]
  /\ UNCHANGED <<nstreams, parseVars, threadVars, clientVars, appVars, dispVars, storeVars>>

Engine(bodies, split) ==
  \E s \in Streams :
    \/ Respond(s, bodies)
    \/ ReadChunk(s, split)
    \/ ReadError(s)
    \/ SendToken(s)
    \/ EndOfBody(s)

----------------------------------------------------------------------------
(* a caller of stream_thread_reply other than the App *)

ClientCall ==
  /\ call_result = "none"
  /\ nstreams < MaxStreams
  /\ \E client_ok \in BOOLEAN :
       IF stream_thread_reply(thread.messages, client_ok)
         THEN /\ task' = SpawnTask(task, nstreams + 1)
              /\ nstreams' = nstreams + 1
              /\ client_rx' = nstreams + 1
              /\ call_result' = "Ok"
         ELSE /\ call_result' = "Err"
              /\ UNCHANGED <<task, nstreams, client_rx>>
  /\ UNCHANGED <<parseVars, threadVars, appVars, dispVars, storeVars>>

\* rx.recv() with an item queued
ClientRecv ==
  /\ client_rx # 0
  /\ task[client_rx].rx_alive
  /\ task[client_rx].chan # <<>>
  /\ task' = [task EXCEPT ![client_rx].chan = Tail(@)]
  /\ UNCHANGED <<nstreams, parseVars, threadVars, clientVars, appVars, dispVars, storeVars>>

\* the receiver goes out of scope
ClientDrop ==
  /\ client_rx # 0
  /\ task[client_rx].rx_alive
  /\ task' = [task EXCEPT ![client_rx].rx_alive = FALSE]
  /\ UNCHANGED <<nstreams, parseVars, threadVars, clientVars, appVars, dispVars, storeVars>>

----------------------------------------------------------------------------
(* Message and Thread *)

MaxInput == 1        \* characters typed into the input buffer
MaxDigits == 2       \* digits typed in copy mode
MaxKeys == 3         \* terminal events read during one run
WindowHeight == 4    \* rows of the chat window

SCROLL_STEP == 1
MaxContext == 8192

\* the backquote character (written as a grave-free symbol)
BT == "^"
Fence == <<BT, BT, BT>>

\* \w on the characters used here
IsWord(c) == c \notin {NL, SP, BT, QT, "{", "}", "[", "]", ":", "<", ">"}

IsFenceAt(s, j) == j + 2 <= Len(s) /\ SubSeq(s, j, j + 2) = Fence

\* first index at or after h that is not a word character
HeaderEnd(s, h) ==
  IF \E j \in h..Len(s) : ~IsWord(s[j])
    THEN CHOOSE j \in h..Len(s) : ~IsWord(s[j]) /\ \A k \in h..(j - 1) : IsWord(s[k])
    ELSE Len(s) + 1

\* first index at or after c of a newline followed by a fence, 0 if none
CloseAt(s, c) ==
  IF \E e \in c..Len(s) : s[e] = NL /\ IsFenceAt(s, e + 1)
    THEN CHOOSE e \in c..Len(s) :
           /\ s[e] = NL /\ IsFenceAt(s, e + 1)
           /\ \A k \in c..(e - 1) : ~(s[k] = NL /\ IsFenceAt(s, k + 1))
    ELSE 0

NoMatch == [ok |-> FALSE, language |-> None, content |-> <<>>, end |-> 0]

\* CODEBLOCK_PATTERN tried at position j
MatchAt(s, j) ==
  IF ~IsFenceAt(s, j) THEN NoMatch
  ELSE LET h == HeaderEnd(s, j + 3) IN
       IF h > Len(s) \/ s[h] # NL THEN NoMatch
       ELSE LET e == CloseAt(s, h + 1) IN
            IF e = 0 THEN NoMatch
            ELSE [ok |-> TRUE,
                  language |-> IF h = j + 3 THEN None ELSE Some(SubSeq(s, j + 3, h - 1)),
                  content |-> SubSeq(s, h + 1, e - 1),
                  end |-> e + 3]

RECURSIVE BlocksFrom(_, _)
BlocksFrom(s, j) ==
  IF j > Len(s) THEN <<>>
  ELSE IF MatchAt(s, j).ok
    THEN <<[language |-> MatchAt(s, j).language, content |-> MatchAt(s, j).content]>>
           \o BlocksFrom(s, MatchAt(s, j).end + 1)
    ELSE BlocksFrom(s, j + 1)

\* Message::code_blocks after update_blocks
code_blocks(m) == BlocksFrom(m.content, 1)

new_user(text) == Msg("User", text)

\* Message::update
message_update(m, text) == [m EXCEPT !.content = @ \o text]

is_system(m) == m.role = "System"

add_message(th, m) == [th EXCEPT !.messages = Append(@, m)]

\* Thread::update: extend the incoming message, or create it
thread_update(th, text) ==
  [th EXCEPT !.incoming =
     IF @ = None THEN Some(Msg("Assistant", text))
     ELSE Some(message_update(@[1], text))]

\* Thread::commit_message: the incoming message joins the committed ones
commit_message(th) ==
  IF th.incoming = None THEN th
  ELSE [th EXCEPT !.messages = Append(@, th.incoming[1]), !.incoming = None]

NotSystem(m) == ~is_system(m)
non_sys_messages(th) == SelectSeq(th.messages, NotSystem)

thread_title(th) == th.title
set_title(th, t) == [th EXCEPT !.title = Some(t)]
add_summary(th, sm) == [th EXCEPT !.summaries = Append(@, sm)]

RECURSIVE total_tokens(_)
total_tokens(msgs) ==
  IF msgs = <<>> THEN 0
  ELSE (IF Head(msgs).tokens # None THEN Head(msgs).tokens[1]
        ELSE Len(Head(msgs).content) \div 4) + total_tokens(Tail(msgs))

\* Thread::token_use() > 0.7
token_use_high(th) == 10 * total_tokens(th.messages) > 7 * MaxContext

RECURSIVE FlatBlocks(_)
FlatBlocks(msgs) ==
  IF msgs = <<>> THEN <<>> ELSE code_blocks(Head(msgs)) \o FlatBlocks(Tail(msgs))

\* Thread::code_blocks: the blocks of the thread in display order
thread_code_blocks(th) == FlatBlocks(th.messages \o th.incoming)

RECURSIVE DisplayLines(_)
DisplayLines(msgs) ==
  IF msgs = <<>> THEN 0
  ELSE (IF is_system(Head(msgs)) THEN 0 ELSE 2 + Len(lines(Head(msgs).content)))
         + DisplayLines(Tail(msgs))

\* number of lines of Thread::tui_formatted_messages: per message a header,
\* one line per line of content, a blank line
TextLen(th) == DisplayLines(th.messages \o th.incoming)

----------------------------------------------------------------------------
(* App *)

NewApp ==
  [should_quit |-> FALSE, reply_rx |-> 0, summary_rx |-> FALSE, title_rx |-> FALSE,
   user_message |-> <<>>, chat_scroll |-> 0, bottom_text |-> None,
   copy_select_buf |-> <<>>, copy_mode |-> FALSE, selected_block_index |-> None,
   text_len |-> 0, chat_window_height |-> 0, should_show_editor |-> FALSE,
   chat_title |-> None]

TitleText == <<"T">>
SummaryVal == [start |-> 0, end |-> 1, content |-> <<"S">>]

\* the state one pass of the loop works on; err is the error a ? returns
World ==
  [app |-> app, thread |-> thread, task |-> task, nstreams |-> nstreams,
   meta |-> meta, clipboard |-> clipboard, startups |-> run.startups, err |-> "none"]

max_scroll(a) ==
  IF a.chat_window_height >= a.text_len THEN 0
  ELSE (a.text_len - a.chat_window_height) + 2

Min(x, y) == IF x <= y THEN x ELSE y

scroll_up(w, step) ==
  [w EXCEPT !.app.chat_scroll = IF @ >= step THEN @ - step ELSE 0]

\* mutant: the offset is not clamped to the maximum
scroll_down_NoClamp(w, step) ==
  [w EXCEPT !.app.chat_scroll = @ + step]

scroll_down(w, step) ==
  [w EXCEPT !.app.chat_scroll = Min(@ + step, max_scroll(w.app))]

exit_copy_mode(w) ==
  [w EXCEPT !.app.copy_select_buf = <<>>, !.app.copy_mode = FALSE]

NoSelection(n) == Some([kind |-> "NoSelection", n |-> n, text |-> <<>>])
Copied(text) == Some([kind |-> "Copied", n |-> 0, text |-> text])

\* KeyCode::Char(c) of a digit key
DigitChar(key) == IF key = "Digit0" THEN "0" ELSE "1"

DigitVal(c) == CASE c = "0" -> 0 [] c = "1" -> 1 [] c = "2" -> 2 [] OTHER -> 9

\* str::parse::<usize> of a string of digits
RECURSIVE ParseUsize(_)
ParseUsize(ds) ==
  IF ds = <<>> THEN 0 ELSE 10 * ParseUsize(SubSeq(ds, 1, Len(ds) - 1)) + DigitVal(ds[Len(ds)])

\* Vec::get(n.saturating_sub(1)).is_some()
HasBlock(th, n) ==
  (IF n >= 1 THEN n - 1 ELSE 0) < Len(thread_code_blocks(th))

GetBlock(th, n) == thread_code_blocks(th)[(IF n >= 1 THEN n - 1 ELSE 0) + 1]

\* App::update_copy_mode
update_copy_mode(w, key, clip_ok) ==
  CASE key = "Esc" -> exit_copy_mode(w)
    [] key = "Enter" ->
         IF w.app.selected_block_index = None THEN w
         ELSE LET index == w.app.selected_block_index[1] IN
              IF ~HasBlock(w.thread, index)
                THEN exit_copy_mode([w EXCEPT !.app.bottom_text = NoSelection(index)])
                ELSE IF ~clip_ok THEN [w EXCEPT !.err = "clipboard"]
                ELSE exit_copy_mode(
                       [w EXCEPT !.clipboard = Some(GetBlock(w.thread, index).content),
                                 !.app.bottom_text = Copied(GetBlock(w.thread, index).content)])
    [] key \in {"Digit0", "Digit1"} ->
         LET buf == Append(w.app.copy_select_buf, DigitChar(key))
             n == ParseUsize(buf)
         IN IF HasBlock(w.thread, n)
              THEN [w EXCEPT !.app.copy_select_buf = buf,
                             !.app.selected_block_index = Some(n),
                             !.app.bottom_text = None]
              ELSE [w EXCEPT !.app.bottom_text = NoSelection(n),
                             !.app.copy_mode = FALSE,
                             !.app.copy_select_buf = <<>>]
    [] OTHER -> w

\* the receiver held in a field is dropped when the field is overwritten
DropRx(tk, s) == IF s = 0 THEN tk ELSE [tk EXCEPT ![s].rx_alive = FALSE]

\* mutant: the receiver returned by stream_thread_reply is not stored
StartReply_NoRx(w, client_ok) ==
  IF w.err # "none" THEN w
  ELSE IF ~stream_thread_reply(w.thread.messages, client_ok)
    THEN [w EXCEPT !.err = "stream"]
    ELSE [w EXCEPT !.task = [SpawnTask(@, w.nstreams + 1) EXCEPT ![w.nstreams + 1].rx_alive = FALSE],
                   !.nstreams = @ + 1]

\* self.reply_rx = Some(stream_thread_reply(self.thread())?)
StartReply(w, client_ok) ==
  IF w.err # "none" THEN w
  ELSE IF ~stream_thread_reply(w.thread.messages, client_ok)
    THEN [w EXCEPT !.err = "stream"]
    ELSE [w EXCEPT !.task = SpawnTask(DropRx(@, w.app.reply_rx), w.nstreams + 1),
                   !.nstreams = @ + 1,
                   !.app.reply_rx = w.nstreams + 1]

\* mutant: the title request does not wait for the else branch
StartMeta_Both(w, meta_ok) ==
  LET w1 == IF token_use_high(w.thread) /\ meta_ok
              THEN [w EXCEPT !.app.summary_rx = TRUE, !.meta.summary = "pending"]
              ELSE w
  IN IF ~meta_ok /\ token_use_high(w.thread) THEN [w EXCEPT !.err = "fetch"]
     ELSE IF thread_title(w.thread) = None /\ Len(non_sys_messages(w.thread)) >= 2
       THEN IF meta_ok
              THEN [w1 EXCEPT !.app.title_rx = TRUE, !.meta.title = "pending"]
              ELSE [w1 EXCEPT !.err = "fetch"]
     ELSE w1

\* the summary or title request of send_message
StartMeta(w, meta_ok) ==
  IF token_use_high(w.thread)
    THEN IF meta_ok
           THEN [w EXCEPT !.app.summary_rx = TRUE, !.meta.summary = "pending"]
           ELSE [w EXCEPT !.err = "fetch"]
  ELSE IF thread_title(w.thread) = None /\ Len(non_sys_messages(w.thread)) >= 2
    THEN IF meta_ok
           THEN [w EXCEPT !.app.title_rx = TRUE, !.meta.title = "pending"]
           ELSE [w EXCEPT !.err = "fetch"]
  ELSE w

ClearInput(w) == IF w.err # "none" THEN w ELSE [w EXCEPT !.app.user_message = <<>>]

\* App::send_message
send_message(w, meta_ok, client_ok) ==
  ClearInput(StartReply(
    StartMeta([w EXCEPT !.thread = add_message(@, new_user(w.app.user_message))], meta_ok),
    client_ok))

Pop(s) == IF s = <<>> THEN s ELSE SubSeq(s, 1, Len(s) - 1)

\* App::update_awaiting_send: one terminal event
\* mutant: Ctrl-C is read and ignored
quit_key_Ignored(w) == w

\* the arm of Ctrl-C: self.should_quit = true
quit_key(w) == [w EXCEPT !.app.should_quit = TRUE]

update_awaiting_send(w, ev, c) ==
  CASE ev = "CtrlC" -> quit_key(w)
    [] ev = "Up" -> scroll_up(w, SCROLL_STEP)
    [] ev = "Down" -> scroll_down(w, SCROLL_STEP)
    [] ev = "ScrollUp" -> scroll_up(w, SCROLL_STEP * 2)
    [] ev = "ScrollDown" -> scroll_down(w, SCROLL_STEP * 2)
    [] ev = "Other" -> w
    [] OTHER ->
         IF w.app.copy_mode THEN update_copy_mode(w, ev, c.clip_ok)
         ELSE CASE ev = "CtrlW" -> [w EXCEPT !.app.copy_mode = TRUE]
                [] ev = "CtrlE" -> [w EXCEPT !.app.should_show_editor = TRUE]
                [] ev = "AltEnter" ->
                     IF w.app.user_message = <<>> THEN w
                     ELSE ClearInput(StartReply(send_message(w, c.meta_ok, c.ok1), c.ok2))
                [] ev = "Enter" -> [w EXCEPT !.app.user_message = Append(@, NL)]
                [] ev = "Char" -> [w EXCEPT !.app.user_message = Append(@, "h")]
                [] ev \in {"Digit0", "Digit1"} ->
                     [w EXCEPT !.app.user_message = Append(@, DigitChar(ev))]
                [] ev = "Backspace" -> [w EXCEPT !.app.user_message = Pop(@)]
                [] OTHER -> w

\* mutant: the scroll position is left where it was
ScrollToBottom_Keep(w) == w

\* self.chat_scroll = self.max_scroll()
ScrollToBottom(w) == [w EXCEPT !.app.chat_scroll = max_scroll(w.app)]

\* mutant: the receiver is given up at the first token
recv_token_Leave(w, s) ==
  [w EXCEPT !.task[s].chan = Tail(@),
            !.thread = thread_update(@, Head(w.task[s].chan)[1]),
            !.app.reply_rx = 0]

\* the arm Some(s) of update_recieving: the token goes to Thread::update
recv_token(w, s) ==
  [w EXCEPT !.task[s].chan = Tail(@),
            !.thread = thread_update(@, Head(w.task[s].chan)[1])]

\* mutant: the sentinel of a reply without tokens is taken and the receiver kept
recv_none_NeedsIncoming(w, s) ==
  IF w.thread.incoming = None THEN [w EXCEPT !.task[s].chan = Tail(@)]
  ELSE [w EXCEPT !.task[s].chan = Tail(@),
                 !.task[s].rx_alive = FALSE,
                 !.thread = commit_message(@),
                 !.app.reply_rx = 0]

\* the arm None of update_recieving: commit_message()?, then the receiver
\* is cleared and with it dropped
recv_none(w, s) ==
  [w EXCEPT !.task[s].chan = Tail(@),
            !.task[s].rx_alive = FALSE,
            !.thread = commit_message(@),
            !.app.reply_rx = 0]

\* mutant: the receiver is kept after the sentinel
update_recieving_KeepRx(w) ==
  LET s == w.app.reply_rx
      w1 == ScrollToBottom(w)
  IN IF w.task[s].chan = <<>> THEN [w1 EXCEPT !.err = "recv"]
     ELSE IF Head(w.task[s].chan) # None
       THEN recv_token(w1, s)
       ELSE [w1 EXCEPT !.task[s].chan = Tail(@),
                       !.thread = commit_message(@)]

\* App::update_recieving
update_recieving(w) ==
  LET s == w.app.reply_rx
      w1 == ScrollToBottom(w)
  IN IF w.task[s].chan = <<>> THEN [w1 EXCEPT !.err = "recv"]
     ELSE IF Head(w.task[s].chan) # None
       THEN recv_token(w1, s)
       ELSE recv_none(w1, s)

\* the summary_rx block of App::update; late: the value arrives between
\* try_recv and is_empty
PollSummary(w, late) ==
  IF ~w.app.summary_rx THEN w
  ELSE CASE w.meta.summary = "value" ->
              [w EXCEPT !.thread = add_summary(@, SummaryVal),
                        !.app.summary_rx = FALSE, !.meta.summary = "none"]
         [] w.meta.summary = "pending" /\ late ->
              [w EXCEPT !.meta.summary = "value", !.err = "try_recv"]
         [] OTHER -> w

\* the title_rx block of App::update
PollTitle(w, late) ==
  IF w.err # "none" \/ ~w.app.title_rx THEN w
  ELSE CASE w.meta.title = "value" ->
              [w EXCEPT !.thread = set_title(@, TitleText),
                        !.app.chat_title = Some(TitleText),
                        !.app.title_rx = FALSE, !.meta.title = "none"]
         [] w.meta.title = "pending" /\ late ->
              [w EXCEPT !.meta.title = "value", !.err = "try_recv"]
         [] OTHER -> w

\* mutant: the event is handled before the reply is received
Dispatch_KeysFirst(w, ev, c) ==
  IF w.err # "none" THEN w
  ELSE IF w.app.reply_rx # 0
    THEN IF ev # "none" /\ update_awaiting_send(w, ev, c).err = "none"
           THEN update_recieving(update_awaiting_send(w, ev, c))
           ELSE update_recieving(w)
  ELSE IF ev # "none" THEN update_awaiting_send(w, ev, c)
  ELSE w

\* the match on reply_rx of App::update
Dispatch(w, ev, c) ==
  IF w.err # "none" THEN w
  ELSE IF w.app.reply_rx # 0 THEN update_recieving(w)
  ELSE IF ev # "none" THEN update_awaiting_send(w, ev, c)
  ELSE w

\* let _ = crossterm::event::read(): an event is read and dropped
Flushed(w, ev, c) ==
  /\ ev # "none"
  /\ w.app.reply_rx # 0
  /\ PollTitle(PollSummary(w, c.late_s), c.late_t).err = "none"

\* App::update
update(w, ev, c) == Dispatch(PollTitle(PollSummary(w, c.late_s), c.late_t), ev, c)

\* App::ui: what it stores
ui(w) ==
  [w EXCEPT !.app.text_len = TextLen(w.thread), !.app.chat_window_height = WindowHeight]

\* App::show_editor; edited is what input_from_editor returns. The screen
\* is cleared and flushed, the editor runs, then App::startup is called
show_editor(w, edited) ==
  IF edited = "error" THEN [w EXCEPT !.err = "editor"]
  ELSE IF edited = "empty" THEN [w EXCEPT !.startups = @ + 1]
  ELSE [w EXCEPT !.app.user_message = <<"h">>, !.startups = @ + 1]

\* one pass of the while loop of App::run after update: draw, editor
AfterUpdate(w, edited) ==
  IF w.err # "none" THEN w
  ELSE IF ui(w).app.should_show_editor
    THEN LET w1 == show_editor(ui(w), edited) IN
         IF w1.err # "none" THEN w1 ELSE [w1 EXCEPT !.app.should_show_editor = FALSE]
    ELSE ui(w)

\* the update and draw before the loop
FirstPass(w) ==
  IF w.err # "none" THEN w
  ELSE [ui(w) EXCEPT !.app.chat_scroll = max_scroll(ui(w).app)]

Events ==
  {"none", "CtrlC", "Up", "Down", "ScrollUp", "ScrollDown", "Other", "CtrlW",
   "CtrlE", "AltEnter", "Enter", "Char", "Digit0", "Digit1", "Backspace", "Esc"}

Typing == {"Enter", "Char", "Digit1"}

\* events of the terminal within the bounds
EventAllowed(ev) ==
  /\ app.reply_rx # 0 => ev \in {"none", "Char", "CtrlC"}
  /\ ev # "none" => run.keys < MaxKeys
  /\ (ev \in Typing /\ ~app.copy_mode) => Len(app.user_message) < MaxInput
  /\ (ev \in {"Digit0", "Digit1"} /\ app.copy_mode) => Len(app.copy_select_buf) < MaxDigits
  /\ ev = "Digit0" => app.copy_mode
  /\ ev = "AltEnter" => nstreams + 2 <= MaxStreams

When(cond, S, dflt) == IF cond THEN S ELSE {dflt}

\* what the environment decides during one pass, where the pass asks
Choices(ev) ==
  LET sending == ev = "AltEnter" /\ ~app.copy_mode /\ app.user_message # <<>> IN
  [clip_ok : When(ev = "Enter" /\ app.copy_mode, BOOLEAN, TRUE),
   meta_ok : When(sending, BOOLEAN, TRUE),
   ok1 : When(sending, BOOLEAN, TRUE),
   ok2 : When(sending, BOOLEAN, TRUE),
   late_s : When(app.summary_rx /\ meta.summary = "pending", BOOLEAN, FALSE),
   late_t : When(app.title_rx /\ meta.title = "pending", BOOLEAN, FALSE),
   edited : When(ev = "CtrlE" \/ app.should_show_editor,
                 {"error", "empty", "text"}, "empty")]

\* rx.recv() returns: an item is queued, or the sender is gone
RecvReady(s) == task[s].chan # <<>> \/ task[s].pc \in {"done", "failed"}

Store(w) ==
  /\ app' = w.app
  /\ thread' = w.thread
  /\ task' = w.task
  /\ nstreams' = w.nstreams
  /\ meta' = w.meta
  /\ clipboard' = w.clipboard

\* App::run up to the loop: startup, update, draw
RunStart ==
  /\ run.state = "start"
  /\ \E ev \in Events :
       /\ EventAllowed(ev)
       /\ \E c \in Choices(ev) :
          LET w == FirstPass(update(World, ev, c)) IN
          /\ Store(w)
          /\ run' = [state |-> IF w.err # "none" THEN "error" ELSE "loop",
                      error |-> w.err, raw_mode |-> TRUE,
                      keys |-> IF ev = "none" THEN 0 ELSE 1,
                      startups |-> w.startups + 1, shutdowns |-> run.shutdowns,
                      dropped |-> 0]
  /\ UNCHANGED <<parseVars, clientVars, dispVars, storeVars>>

\* one pass of the while loop of App::run
Tick ==
  /\ run.state = "loop"
  /\ ~app.should_quit
  /\ app.reply_rx # 0 => RecvReady(app.reply_rx)
  /\ \E ev \in Events :
       /\ EventAllowed(ev)
       /\ \E c \in Choices(ev) :
          LET w == AfterUpdate(update(World, ev, c), c.edited) IN
          /\ Store(w)
          /\ run' = [run EXCEPT !.state = IF w.err # "none" THEN "error" ELSE @,
                                 !.error = w.err,
                                 !.startups = w.startups,
                                 !.dropped = IF Flushed(World, ev, c) THEN @ + 1 ELSE @,
                                 !.keys = IF ev = "none" THEN @ ELSE @ + 1]
  /\ UNCHANGED <<parseVars, clientVars, dispVars, storeVars>>

\* the loop ends: App::shutdown, Ok(())
Quit ==
  /\ run.state = "loop"
  /\ app.should_quit
  /\ run' = [run EXCEPT !.state = "quit", !.raw_mode = FALSE, !.shutdowns = @ + 1]
  /\ UNCHANGED <<app, meta, clipboard, parseVars, threadVars, clientVars, engineVars, dispVars, storeVars>>

\* the task behind a title or summary request delivers, or ends without
MetaDeliver(kind) ==
  /\ meta[kind] = "pending"
  /\ \E outcome \in {"value", "closed"} : meta' = [meta EXCEPT ![kind] = outcome]
  /\ UNCHANGED <<app, run, clipboard, parseVars, threadVars, clientVars, engineVars, dispVars, storeVars>>

----------------------------------------------------------------------------
(* try_parse_chunks called on its own *)

ParseCall ==
  /\ p_result = None
  /\ p_result' = Some(try_parse_chunks(TextOf(p_lines)))
  /\ UNCHANGED <<p_lines, threadVars, clientVars, engineVars, appVars, dispVars, storeVars>>

----------------------------------------------------------------------------
(* specifications *)

InitParse ==
  /\ p_lines \in SeqsUpTo(LineTemplates, MaxLines)
  /\ p_result = None
  /\ thread = NewThread(<<>>)
  /\ call_result = "none"
  /\ client_rx = 0
  /\ nstreams = 0
  /\ task = [s \in Streams |-> IdleTask]
  /\ app = NewApp
  /\ run = [state |-> "off", error |-> "none", raw_mode |-> FALSE, keys |-> 0, startups |-> 0, shutdowns |-> 0, dropped |-> 0]
  /\ meta = [summary |-> "none", title |-> "none"]
  /\ clipboard = None
  /\ shown = None
  /\ message = None
  /\ session = <<>>
  /\ db = EmptyDb
  /\ io = None
  /\ now = 0

NextParse == ParseCall

SpecParse == InitParse /\ [][NextParse]_vars

Hist(roles) == [i \in 1..Len(roles) |-> Msg(roles[i], <<"h">>)]

InitClient ==
  /\ p_lines = <<>>
  /\ p_result = None
  /\ thread \in { NewThread(Hist(rs)) : rs \in SeqsUpTo(Roles, MaxMsgs) }
  /\ call_result = "none"
  /\ client_rx = 0
  /\ nstreams = 0
  /\ task = [s \in Streams |-> IdleTask]
  /\ app = NewApp
  /\ run = [state |-> "off", error |-> "none", raw_mode |-> FALSE, keys |-> 0, startups |-> 0, shutdowns |-> 0, dropped |-> 0]
  /\ meta = [summary |-> "none", title |-> "none"]
  /\ clipboard = None
  /\ shown = None
  /\ message = None
  /\ session = <<>>
  /\ db = EmptyDb
  /\ io = None
  /\ now = 0

NextClient ==
  \/ ClientCall
  \/ ClientRecv
  \/ ClientDrop
  \/ Engine(Bodies, TRUE)

SpecClient == InitClient /\ [][NextClient]_vars

CodeText == Fence \o <<NL, "b", NL>> \o Fence

AppThreads ==
  { NewThread(<<Msg("System", <<"h">>)>>),
    NewThread(<<Msg("System", <<"h">>), Msg("User", <<"h">>), Msg("Assistant", CodeText)>>),
    NewThread(<<Msg("System", <<"h">>),
                [Msg("User", <<"h">>) EXCEPT !.tokens = Some(6000)],
                Msg("Assistant", <<"b">>)>>) }

AppBodies == { <<>>, <<"d">>, RecAB \o <<NL>> \o RecB }

Init ==
  /\ p_lines = <<>>
  /\ p_result = None
  /\ thread \in AppThreads
  /\ call_result = "none"
  /\ client_rx = 0
  /\ nstreams = 0
  /\ task = [s \in Streams |-> IdleTask]
  /\ app = NewApp
  /\ run = [state |-> "start", error |-> "none", raw_mode |-> FALSE, keys |-> 0, startups |-> 0, shutdowns |-> 0, dropped |-> 0]
  /\ meta = [summary |-> "none", title |-> "none"]
  /\ clipboard = None
  /\ shown = None
  /\ message = None
  /\ session = <<>>
  /\ db = EmptyDb
  /\ io = None
  /\ now = 0

Next ==
  \/ RunStart
  \/ Tick
  \/ Quit
  \/ \E kind \in {"summary", "title"} : MetaDeliver(kind)
  \/ Engine(AppBodies, FALSE)

Spec == Init /\ [][Next]_vars

----------------------------------------------------------------------------
(* properties of the chunk parser *)

NonBlank(l) == l.class # "blank"

\* the lines of the harness input that are not blank
Sig == SelectSeq(p_lines, NonBlank)

\* position in Sig of the first line that is not a complete record, 0 if none
FirstStop ==
  IF \E i \in 1..Len(Sig) : Sig[i].class # "record"
    THEN CHOOSE i \in 1..Len(Sig) :
           Sig[i].class # "record" /\ \A j \in 1..(i - 1) : Sig[j].class = "record"
    ELSE 0

Norm(l) == l.norm
RecordOf(l) == [content |-> l.content]

\* the records of the first n lines of Sig
RecordsBefore(n) == [i \in 1..n |-> RecordOf(Sig[i])]

\* C2: when the non-empty lines are k complete records followed by a proper
\* prefix of a record, try_parse_chunks returns those k records in order and
\* a remainder that is the incomplete line and the non-empty lines after it,
\* each stripped, joined by newlines.
C2_RecordsThenRemainder ==
  (p_result # None /\ FirstStop # 0 /\ Sig[FirstStop].class = "partial") =>
    /\ ~p_result[1].err
    /\ Unwrap(p_result[1].chunks) = RecordsBefore(FirstStop - 1)
    /\ p_result[1].remainder =
         Some(join(MapSeq(Norm, SubSeq(Sig, FirstStop, Len(Sig))), NL))

C2_Witness ==
  /\ p_result # None
  /\ FirstStop >= 2
  /\ Sig[FirstStop].class = "partial"
  /\ Len(Sig) > FirstStop
  /\ p_result[1].remainder # None

\* C3: when the loop reaches a [DONE] line the call succeeds with the records
\* decoded before that line and no remainder, whatever the lines after it.
C3_DoneStops ==
  (p_result # None /\ FirstStop # 0 /\ Sig[FirstStop].class = "done") =>
    /\ ~p_result[1].err
    /\ Unwrap(p_result[1].chunks) = RecordsBefore(FirstStop - 1)
    /\ p_result[1].remainder = None

C3_Witness ==
  /\ p_result # None
  /\ FirstStop >= 2
  /\ Sig[FirstStop].class = "done"
  /\ Len(Sig) > FirstStop
  /\ Sig[Len(Sig)].class = "bad"
  /\ p_result[1].chunks # None

----------------------------------------------------------------------------
(* properties of the stream engine *)

\* C1: feeding the chunks of a response in turn, carrying the remainder,
\* yields the records of one parse of the whole response, and fails only if
\* that parse fails.
C1_SplitEquivalence ==
  \A s \in Streams :
    LET t == task[s]
        single == try_parse_chunks(t.body)
    IN /\ t.fail = "parse" => single.err
       /\ (t.pc \in {"reading", "sending", "done"} /\ t.rest = <<>> /\ ~single.err)
            => t.recs = Unwrap(single.chunks)

\* a step of task s that reads bytes and parses
IsReadStep(s) ==
  task[s].pc = "reading" /\ Len(task'[s].rest) < Len(task[s].rest)

\* the text that step hands to try_parse_chunks
StepInput(s) ==
  task[s].buf \o SubSeq(task[s].rest, 1, Len(task[s].rest) - Len(task'[s].rest))

\* the loop over the lines of input meets a line that fails to decode, not
\* by end of input, and is not [DONE]
HasBadLine(input) ==
  LET ls == input_lines(input) IN
  \E i \in 1..Len(ls) :
    /\ \A j \in 1..(i - 1) : from_str(ls[j]).kind = "Ok"
    /\ from_str(ls[i]).kind \in {"Syntax", "Data"}
    /\ ls[i] # DoneLit

\* C4: a line that fails to decode other than by end of input, and is not
\* [DONE], fails the whole call with no records; the task ends there and
\* sends none of the tokens of that input.
C4_BadLineFailsAll ==
  [][\A s \in Streams :
       (IsReadStep(s) /\ HasBadLine(StepInput(s))) =>
         /\ try_parse_chunks(StepInput(s)).err
         /\ try_parse_chunks(StepInput(s)).chunks = None
         /\ task'[s].pc = "failed"
         /\ task'[s].fail = "parse"
         /\ task'[s].pending = <<>>
         /\ task'[s].sent = task[s].sent
         /\ task'[s].chan = task[s].chan]_vars

C4_Witness ==
  \E s \in Streams :
    /\ task[s].fail = "parse"
    /\ Len(input_lines(task[s].buf)) >= 2
    /\ from_str(input_lines(task[s].buf)[1]).kind = "Ok"
    /\ from_str(input_lines(task[s].buf)[1]).chunk.content # None

LastIsUser ==
  thread.messages # <<>> /\ thread.messages[Len(thread.messages)].role = "User"

\* C5: stream_thread_reply on a thread whose last message is not a User
\* message, or that has no message, fails, and then no channel and no task
\* exist.
C5_NeedsUserLast ==
  (call_result # "none" /\ ~LastIsUser) =>
    /\ call_result = "Err"
    /\ nstreams = 0
    /\ client_rx = 0
    /\ \A s \in Streams : task[s] = IdleTask

C5_Witness ==
  /\ call_result = "Err"
  /\ Len(thread.messages) = 2
  /\ thread.messages[1].role = "User"
  /\ thread.messages[2].role = "Assistant"

\* C6: a task that reads its body to the end without error has sent the
\* tokens of the records in order, then one None, and nothing else.
C6_TokensThenNone ==
  \A s \in Streams :
    task[s].pc = "done" =>
      task[s].sent = MapSeq(Some, Tokens(task[s].recs)) \o <<None>>

C6_Witness ==
  \E s \in Streams :
    /\ task[s].pc = "done"
    /\ Len(task[s].sent) >= 3
    /\ task[s].sent[1] # task[s].sent[2]

\* C7: a task ended by a network failure, a non-2xx status or a parse error
\* has sent no None: its channel holds Some(token) values only.
C7_FailureSendsNoNone ==
  \A s \in Streams :
    (task[s].pc = "failed" /\ task[s].fail \in {"network", "status", "parse"}) =>
      /\ \A i \in 1..Len(task[s].sent) : task[s].sent[i] # None
      /\ \A i \in 1..Len(task[s].chan) : task[s].chan[i] # None

C7_Witness ==
  \E s \in Streams :
    /\ task[s].pc = "failed"
    /\ task[s].fail = "parse"
    /\ task[s].sent # <<>>

----------------------------------------------------------------------------
(* the App and the reply channel *)

\* the reply channel of stream s is closed without a None: the task has
\* failed and what it sent has been received
ClosedNoSentinel(s) == task[s].pc = "failed" /\ task[s].chan = <<>>

\* a step of App::run
IsAppStep == app' # app \/ run' # run

\* C8: the pass of the loop that finds the reply channel closed without a
\* None leaves the receiving state (reply_rx absent) and the loop goes on.
C8_ClosedReplyLeavesReceiving ==
  [][(/\ run.state = "loop"
      /\ app.reply_rx # 0
      /\ ClosedNoSentinel(app.reply_rx)
      /\ IsAppStep)
       => (app'.reply_rx = 0 /\ run'.state = "loop")]_vars

UpdateErrors == {"recv", "try_recv", "stream", "fetch", "clipboard"}

\* C9: an error of an update step is shown in the bottom alert and does not
\* end the loop: run has not returned and should_quit is not set.
C9_UpdateErrorsSurfaced ==
  run.error \in UpdateErrors =>
    /\ run.state = "loop"
    /\ app.bottom_text # None
    /\ ~app.should_quit

\* the tokens among the items of a channel, in order
RECURSIVE Payload(_)
Payload(items) ==
  IF items = <<>> THEN <<>>
  ELSE (IF Head(items) = None THEN <<>> ELSE <<Head(items)[1]>>) \o Payload(Tail(items))

RECURSIVE Concat(_)
Concat(ss) == IF ss = <<>> THEN <<>> ELSE Head(ss) \o Concat(Tail(ss))

\* the App takes the next item of the reply channel of stream s
Receives(s) ==
  /\ app.reply_rx = s
  /\ task[s].chan # <<>>
  /\ task'[s].chan = Tail(task[s].chan)

\* C10: while a reply of tokens t1..tn (n >= 1) and a None is received the
\* committed messages stay as they are until the None is taken; taking it
\* leaves no incoming message, one more committed message, an Assistant
\* message whose content is t1 ++ ... ++ tn, and no reply receiver.
C10_ReplyCommitted ==
  [][\A s \in Streams :
       Receives(s) =>
         IF Head(task[s].chan) # None
           THEN thread'.messages = thread.messages /\ app'.reply_rx = s
           ELSE Payload(task[s].sent) # <<>> =>
                  /\ thread'.incoming = None
                  /\ app'.reply_rx = 0
                  /\ Len(thread'.messages) = Len(thread.messages) + 1
                  /\ SubSeq(thread'.messages, 1, Len(thread.messages)) = thread.messages
                  /\ thread'.messages[Len(thread'.messages)].role = "Assistant"
                  /\ thread'.messages[Len(thread'.messages)].content
                       = Concat(Payload(task[s].sent))]_vars

C10_Witness ==
  /\ run.state = "loop"
  /\ nstreams > 0
  /\ app.reply_rx = 0
  /\ task[nstreams].pc = "done"
  /\ task[nstreams].chan = <<>>
  /\ Len(Payload(task[nstreams].sent)) >= 2
  /\ thread.incoming = None
  /\ thread.messages[Len(thread.messages)].role = "Assistant"
  /\ thread.messages[Len(thread.messages)].content = Concat(Payload(task[nstreams].sent))
  /\ thread.messages[Len(thread.messages) - 1].role = "User"

----------------------------------------------------------------------------
(* keys of the compose mode *)

\* the App is about to read the terminal event ev in compose mode
Composing(ev) ==
  /\ run.state \in {"start", "loop"}
  /\ ~app.should_quit
  /\ app.reply_rx = 0
  /\ ~app.copy_mode
  /\ EventAllowed(ev)

\* what Alt-Enter does to the thread, the buffer and the receiver when the
\* buffer is not empty and nothing fails
Sent(w) ==
  /\ w.thread.messages = Append(thread.messages, Msg("User", app.user_message))
  /\ w.app.user_message = <<>>
  /\ w.app.reply_rx # 0

\* C11 as stated: Alt-Enter with an empty buffer changes nothing; with a
\* non-empty buffer it appends one User message holding the buffer, clears
\* the buffer and leaves the App receiving, whatever happens.
C11_AltEnterAlwaysSends ==
  Composing("AltEnter") =>
    \A c \in Choices("AltEnter") :
      LET w == update_awaiting_send(World, "AltEnter", c) IN
      IF app.user_message = <<>> THEN w = World ELSE Sent(w)

\* C11 amended: Alt-Enter with an empty buffer changes nothing; with a
\* non-empty buffer it appends exactly one User message holding the buffer
\* and, when starting the title or summary request and the reply streams
\* succeeds, clears the buffer and leaves the App receiving; otherwise the
\* handler returns the error of the request or stream that failed.
C11_AltEnterSends ==
  Composing("AltEnter") =>
    \A c \in Choices("AltEnter") :
      LET w == update_awaiting_send(World, "AltEnter", c) IN
      IF app.user_message = <<>> THEN w = World
      ELSE /\ w.thread.messages = Append(thread.messages, Msg("User", app.user_message))
           /\ w.err = "none" => Sent(w) /\ w.task[w.app.reply_rx].rx_alive
           /\ w.err # "none" => w.err \in {"fetch", "stream"}
           /\ (c.meta_ok /\ c.ok1 /\ c.ok2) => w.err = "none"

C11_Witness ==
  /\ run.state = "loop"
  /\ app.reply_rx # 0
  /\ task[app.reply_rx].pc = "spawned"
  /\ app.user_message = <<>>
  /\ thread.incoming = None
  /\ thread.messages[Len(thread.messages)].role = "User"
  /\ thread.messages[Len(thread.messages)].content # <<>>

----------------------------------------------------------------------------
(* copy mode *)

\* the App is about to read the terminal event ev in copy mode
Copying(ev) ==
  /\ run.state \in {"start", "loop"}
  /\ ~app.should_quit
  /\ app.reply_rx = 0
  /\ app.copy_mode
  /\ EventAllowed(ev)

NumBlocks == Len(thread_code_blocks(thread))

\* C12: a digit typed in copy mode makes the digit buffer a number N; N is
\* taken as the selection and copy mode stays on iff 1 <= N <= the number
\* of code blocks; for any other N, 0 included, the alert is "No selection
\* for 'N'!", the digit buffer is cleared and copy mode ends.
C12_DigitSelects ==
  \A ev \in {"Digit0", "Digit1"} :
    Copying(ev) =>
      \A c \in Choices(ev) :
        LET w == update_awaiting_send(World, ev, c)
            N == ParseUsize(Append(app.copy_select_buf, DigitChar(ev)))
        IN IF 1 <= N /\ N <= NumBlocks
             THEN /\ w.app.selected_block_index = Some(N)
                  /\ w.app.copy_mode
             ELSE /\ w.app.bottom_text = NoSelection(N)
                  /\ w.app.copy_select_buf = <<>>
                  /\ ~w.app.copy_mode

\* C13: Enter in copy mode always ends copy mode, and with a block selected
\* it puts on the clipboard the content of the block whose 1-based index is
\* the selection (the clipboard taken as working).
C13_EnterCopiesAndExits ==
  Copying("Enter") =>
    \A c \in Choices("Enter") :
      c.clip_ok =>
        LET w == update_awaiting_send(World, "Enter", c)
            sel == app.selected_block_index
        IN /\ ~w.app.copy_mode
           /\ (sel # None /\ 1 <= sel[1] /\ sel[1] <= NumBlocks) =>
                w.clipboard = Some(thread_code_blocks(thread)[sel[1]].content)

----------------------------------------------------------------------------
(* display of code blocks *)

MaxDispMsgs == 2     \* non-system messages of a displayed thread at start
MaxIncomingLen == 11 \* characters of an incoming message

BLOCK_MARKER == Fence \o <<"_", "_", "<", "B", "L", "O", "C", "K", ">", "_", "_">> \o Fence

\* Regex::replace_all of update_blocks: every match becomes the marker
RECURSIVE NonCode(_, _)
NonCode(s, j) ==
  IF j > Len(s) THEN <<>>
  ELSE IF MatchAt(s, j).ok
    THEN BLOCK_MARKER \o NonCode(s, MatchAt(s, j).end + 1)
    ELSE <<s[j]>> \o NonCode(s, j + 1)

non_code_content(m) == NonCode(m.content, 1)

TextItem(ln) == [kind |-> "text", n |-> 0, k |-> 0, text |-> ln]
BlockItem(n, k, block) == [kind |-> "block", n |-> n, k |-> k, text |-> block.content]

\* the for loop of Message::formatted_content; a block item is the
\* block_index-th block of the message with the annotation (index)
RECURSIVE FormatLines(_, _, _, _)
FormatLines(lns, blocks, block_index, index) ==
  IF lns = <<>> THEN [items |-> <<>>, index |-> index]
  ELSE IF trim(Head(lns)) = BLOCK_MARKER
    THEN IF block_index < Len(blocks)
           THEN LET r == FormatLines(Tail(lns), blocks, block_index + 1, index + 1) IN
                [items |-> <<BlockItem(index, block_index + 1, blocks[block_index + 1])>> \o r.items,
                 index |-> r.index]
           ELSE FormatLines(Tail(lns), blocks, block_index, index)
    ELSE LET r == FormatLines(Tail(lns), blocks, block_index, index) IN
         [items |-> <<TextItem(Head(lns))>> \o r.items, index |-> r.index]

\* Message::formatted_content: the items and the counter after them
formatted_content(m, index) ==
  FormatLines(lines(non_code_content(m)), code_blocks(m), 0, index)

\* the loop of Thread::tui_formatted_messages over msgs[j..], system
\* messages left out
RECURSIVE FormatFrom(_, _, _)
FormatFrom(msgs, j, counter) ==
  IF j > Len(msgs) THEN <<>>
  ELSE IF is_system(msgs[j]) THEN FormatFrom(msgs, j + 1, counter)
  ELSE LET r == formatted_content(msgs[j], counter) IN
       <<[msg |-> j, role |-> msgs[j].role, items |-> r.items]>>
         \o FormatFrom(msgs, j + 1, r.index)

\* Thread::tui_formatted_messages: one entry per non-system message, the
\* incoming message last, the block counter shared and starting at 1
tui_formatted_messages(th) == FormatFrom(th.messages \o th.incoming, 1, 1)

PlainText == <<"h">>
TwoBlocks == Fence \o <<NL, "a", NL>> \o Fence \o <<NL>> \o CodeText
DispTexts ==
  { PlainText, CodeText, PlainText \o CodeText, CodeText \o PlainText, TwoBlocks }

\* the roles of a conversation after the system prompt
TurnRole(i) == IF i % 2 = 1 THEN "User" ELSE "Assistant"

DisplayThreads ==
  { NewThread(<<Msg("System", PlainText)>> \o [i \in 1..Len(cs) |-> Msg(TurnRole(i), cs[i])]) :
      cs \in SeqsUpTo(DispTexts, MaxDispMsgs) }

\* a pass of the loop of App::run that receives a token: update, then draw
PassToken ==
  /\ \E tok \in DispTexts \ {TwoBlocks} :
       /\ thread.incoming = None => Len(thread.messages) <= MaxDispMsgs
       /\ Len(tok) + (IF thread.incoming = None THEN 0 ELSE Len(thread.incoming[1].content))
            <= MaxIncomingLen
       /\ thread' = thread_update(thread, tok)
  /\ shown' = Some(tui_formatted_messages(thread'))
  /\ UNCHANGED <<message, parseVars, clientVars, engineVars, appVars, storeVars>>

\* a pass that receives the None: commit_message, then draw
PassCommit ==
  /\ thread.incoming # None
  /\ thread' = commit_message(thread)
  /\ shown' = Some(tui_formatted_messages(thread'))
  /\ UNCHANGED <<message, parseVars, clientVars, engineVars, appVars, storeVars>>

\* a pass that only draws
PassDraw ==
  /\ shown = None
  /\ message = None
  /\ shown' = Some(tui_formatted_messages(thread))
  /\ UNCHANGED <<message, parseVars, threadVars, clientVars, engineVars, appVars, storeVars>>

InitDisplay ==
  /\ p_lines = <<>>
  /\ p_result = None
  /\ thread \in DisplayThreads
  /\ call_result = "none"
  /\ client_rx = 0
  /\ nstreams = 0
  /\ task = [s \in Streams |-> IdleTask]
  /\ app = NewApp
  /\ run = [state |-> "off", error |-> "none", raw_mode |-> FALSE, keys |-> 0, startups |-> 0, shutdowns |-> 0, dropped |-> 0]
  /\ meta = [summary |-> "none", title |-> "none"]
  /\ clipboard = None
  /\ shown = None
  /\ message = None
  /\ session = <<>>
  /\ db = EmptyDb
  /\ io = None
  /\ now = 0

NextDisplay == PassToken \/ PassCommit \/ PassDraw

SpecDisplay == InitDisplay /\ [][NextDisplay]_vars

\* the place in Thread::code_blocks of block k of message j
FlatPos(th, j, k) == Len(FlatBlocks(SubSeq(th.messages \o th.incoming, 1, j - 1))) + k

----------------------------------------------------------------------------
(* Store: Thread::to_db, from_db, drop_from_db *)

MaxStoreMsgs == 2    \* messages of a stored thread
MaxTime == 2         \* the clock, in milliseconds

MsPerSec == 1000
FractScale == 1000000   \* the factor applied to the fraction of the stored value

\* a Message with its creation time; timestamp in milliseconds
TMsg(role, content, ts) ==
  [role |-> role, content |-> content, tokens |-> None, timestamp |-> ts]

\* Thread::new(messages, model, id)
Thread_new(msgs, model) ==
  [messages |-> msgs, incoming |-> None, title |-> None, summaries |-> <<>>, model |-> model]

to_num(role) ==
  CASE role = "System" -> 1 [] role = "User" -> 2 [] role = "Assistant" -> 3

\* mutant: an unknown role value is read as Assistant
from_num_Lenient(num) ==
  CASE num = 1 -> Some("System") [] num = 2 -> Some("User") [] OTHER -> Some("Assistant")

\* Role::from_num: None stands for the Err
from_num(num) ==
  CASE num = 1 -> Some("System") [] num = 2 -> Some("User")
    [] num = 3 -> Some("Assistant") [] OTHER -> None

\* Message::timestamp_epoch: secs + millis / 1000, written in milliseconds
timestamp_epoch(m) ==
  (m.timestamp \div MsPerSec) * MsPerSec + (m.timestamp % MsPerSec)

\* Message::new_from_db: the timestamp rebuilt from the stored value, in
\* milliseconds; the fraction times 1_000_000 is taken as nanoseconds
new_from_db(role, content, epoch, tokens) ==
  LET timestamp_secs == epoch \div MsPerSec
      timestamp_nanos == ((epoch % MsPerSec) * FractScale) \div MsPerSec
  IN [role |-> role, content |-> content, tokens |-> tokens,
      timestamp |-> timestamp_secs * MsPerSec + timestamp_nanos \div (1000 * 1000)]

HasRow(table, id) == \E r \in table : r.id = id

\* the message rows of a thread, in rowid order
ThreadRows(d, id) == SelectSeq(d.message, LAMBDA r : r.thread_id = id)

\* SELECT timestamp ... ORDER BY timestamp DESC LIMIT 1
LastTs(rows) ==
  CHOOSE n \in {rows[i].timestamp : i \in 1..Len(rows)} :
    \A i \in 1..Len(rows) : rows[i].timestamp <= n

\* mutant: a message as old as the newest row is written again
messages_to_store_Inclusive(th, rows) ==
  IF rows = <<>> THEN th.messages
  ELSE SelectSeq(th.messages, LAMBDA m : timestamp_epoch(m) >= LastTs(rows))

\* the messages Thread::to_db writes
messages_to_store(th, rows) ==
  IF rows = <<>> THEN th.messages
  ELSE SelectSeq(th.messages, LAMBDA m : timestamp_epoch(m) > LastTs(rows))

MsgRow(id, m) ==
  [thread_id |-> id, role |-> to_num(m.role), content |-> m.content,
   timestamp |-> timestamp_epoch(m), tokens |-> m.tokens]

SummaryRow(id, sm) ==
  [thread_id |-> id, start_index |-> sm.start, end_index |-> sm.end, content |-> sm.content]

\* INSERT OR IGNORE INTO summary, the table unique on (thread_id,
\* start_index, end_index)
RECURSIVE InsertSummaries(_, _, _)
InsertSummaries(table, id, sms) ==
  IF sms = <<>> THEN table
  ELSE InsertSummaries(
         IF \E r \in table : /\ r.thread_id = id
                             /\ r.start_index = Head(sms).start
                             /\ r.end_index = Head(sms).end
           THEN table ELSE table \cup {SummaryRow(id, Head(sms))},
         id, Tail(sms))

\* Thread::to_db
to_db(d, th, id) ==
  [thread |-> IF HasRow(d.thread, id) THEN d.thread
              ELSE d.thread \cup {[id |-> id, model |-> th.model]},
   title |-> IF thread_title(th) = None \/ HasRow(d.title, id) THEN d.title
             ELSE d.title \cup {[id |-> id, content |-> thread_title(th)[1]]},
   message |-> d.message \o
                 MapSeq(LAMBDA m : MsgRow(id, m), messages_to_store(th, ThreadRows(d, id))),
   summary |-> InsertSummaries(d.summary, id, th.summaries)]

\* ORDER BY timestamp ASC: rows of equal timestamp stay in rowid order
RECURSIVE SortRows(_)
SortRows(rows) ==
  IF rows = <<>> THEN <<>>
  ELSE LET i == CHOOSE i \in 1..Len(rows) :
                  /\ \A j \in 1..Len(rows) : rows[i].timestamp <= rows[j].timestamp
                  /\ \A j \in 1..(i - 1) : rows[j].timestamp > rows[i].timestamp
       IN <<rows[i]>> \o SortRows(SubSeq(rows, 1, i - 1) \o SubSeq(rows, i + 1, Len(rows)))

LoadErr == [ok |-> FALSE, thread |-> None]

\* the summaries of a thread, by start and end index
RECURSIVE SummariesOf(_)
SummariesOf(rows) ==
  IF rows = {} THEN <<>>
  ELSE LET r == CHOOSE r \in rows :
                  \A q \in rows : <<r.start_index, r.end_index>> = <<q.start_index, q.end_index>>
                                  \/ r.start_index < q.start_index
                                  \/ (r.start_index = q.start_index /\ r.end_index < q.end_index)
       IN <<[start |-> r.start_index, end |-> r.end_index, content |-> r.content]>>
            \o SummariesOf(rows \ {r})

\* mutant: the rows come back in rowid order
ordered_rows_Rowid(d, id) == ThreadRows(d, id)

\* SELECT ... FROM message WHERE thread_id = ?1 ORDER BY timestamp ASC
ordered_rows(d, id) == SortRows(ThreadRows(d, id))

\* Thread::from_db
from_db(d, id) ==
  IF ~HasRow(d.thread, id) THEN LoadErr
  ELSE LET rows == ordered_rows(d, id) IN
       IF \E i \in 1..Len(rows) : from_num(rows[i].role) = None THEN LoadErr
       ELSE LET msgs == MapSeq(LAMBDA r : new_from_db(from_num(r.role)[1], r.content,
                                                     r.timestamp, r.tokens), rows)
                trow == {r \in d.title : r.id = id}
                th == Thread_new(msgs, (CHOOSE r \in d.thread : r.id = id).model)
            IN [ok |-> TRUE,
                thread |-> Some([th EXCEPT
                  !.summaries = SummariesOf({r \in d.summary : r.thread_id = id}),
                  !.title = IF trow = {} THEN None ELSE Some((CHOOSE r \in trow : TRUE).content)])]

\* Thread::drop_from_db: the statements run one by one, without a
\* transaction; preparing "DELETE FROM summary WHERE thread_id = 1?" fails
\* with a syntax error, which is returned
drop_from_db(d, id) ==
  [db |-> [d EXCEPT !.message = SelectSeq(@, LAMBDA r : r.thread_id # id),
                    !.title = {r \in @ : r.id # id}],
   result |-> "Err"]

----------------------------------------------------------------------------
(* Session and the store *)

\* the ids of the threads of a session
SessionIds == {1, 2}

\* the id of a thread an earlier run wrote to the store
ForeignId == 0

Titles == {<<"T">>, <<"U">>}

\* a store holding a message row with a role value that is no Role
BadRoleDb ==
  [EmptyDb EXCEPT
     !.thread = {[id |-> ForeignId, model |-> "gpt-4"]},
     !.message = <<[thread_id |-> ForeignId, role |-> 1, content |-> <<"h">>,
                    timestamp |-> 0, tokens |-> None],
                   [thread_id |-> ForeignId, role |-> 4, content |-> <<"h">>,
                    timestamp |-> MsPerSec, tokens |-> None]>>]

\* a store whose rows were not written in the order of their timestamps
UnorderedDb ==
  [EmptyDb EXCEPT
     !.thread = {[id |-> ForeignId, model |-> "gpt-4"]},
     !.message = <<[thread_id |-> ForeignId, role |-> 2, content |-> <<"h">>,
                    timestamp |-> MsPerSec, tokens |-> None],
                   [thread_id |-> ForeignId, role |-> 1, content |-> <<"h">>,
                    timestamp |-> 0, tokens |-> None]>>]

StoreUnchanged == UNCHANGED <<parseVars, threadVars, clientVars, engineVars, appVars, dispVars>>

\* Utc::now() moves on
Advance ==
  /\ now < MaxTime
  /\ now' = now + 1
  /\ io' = None
  /\ UNCHANGED <<session, db>>
  /\ StoreUnchanged

\* the text of the prompt
Prompt == <<"h">>

\* Session::new_thread when Uuid::new_v4() returns id: one System message
\* holding the prompt; HashMap::insert puts the thread under id and returns
\* the thread it replaced, if any, which makes the result an error
new_thread(id) ==
  /\ session' = (id :> Thread_new(<<TMsg("System", Prompt, now)>>, "gpt-4")) @@ session
  /\ io' = Some([op |-> "new_thread", id |-> id, ok |-> id \notin DOMAIN session])
  /\ UNCHANGED <<db, now>>
  /\ StoreUnchanged

\* new_thread with an identifier that neither the session nor the store holds
new_thread_fresh(id) ==
  /\ id \notin DOMAIN session
  /\ ~HasRow(db.thread, id)
  /\ new_thread(id)

\* Thread::add_message of a message created now
SessionAddMessage(id) ==
  /\ id \in DOMAIN session
  /\ Len(session[id].messages) < MaxStoreMsgs
  /\ LET msgs == session[id].messages
          role == IF msgs # <<>> /\ msgs[Len(msgs)].role = "User" THEN "Assistant" ELSE "User"
     IN session' = [session EXCEPT ![id] = add_message(@, TMsg(role, <<"h">>, now))]
  /\ io' = None
  /\ UNCHANGED <<db, now>>
  /\ StoreUnchanged

\* Thread::set_title
SessionSetTitle(id) ==
  /\ id \in DOMAIN session
  /\ \E t \in Titles :
       /\ session[id].title # Some(t)
       /\ session' = [session EXCEPT ![id] = set_title(@, t)]
  /\ io' = None
  /\ UNCHANGED <<db, now>>
  /\ StoreUnchanged

\* Thread::add_summary
SessionAddSummary(id) ==
  /\ id \in DOMAIN session
  /\ session[id].summaries = <<>>
  /\ session' = [session EXCEPT ![id] = add_summary(@, SummaryVal)]
  /\ io' = None
  /\ UNCHANGED <<db, now>>
  /\ StoreUnchanged

\* thread.to_db(&mut db)
Save(id) ==
  /\ id \in DOMAIN session
  /\ db' = to_db(db, session[id], id)
  /\ io' = Some([op |-> "save", id |-> id])
  /\ UNCHANGED <<session, now>>
  /\ StoreUnchanged

\* the for loop of Session::save_to_db over ids
RECURSIVE SaveThreads(_, _, _)
SaveThreads(d, threads, ids) ==
  IF ids = {} THEN d
  ELSE LET id == CHOOSE i \in ids : \A j \in ids : i <= j IN
       SaveThreads(to_db(d, threads[id], id), threads, ids \ {id})

\* Session::save_to_db, as Drop calls it
save_to_db ==
  /\ DOMAIN session # {}
  /\ db' = SaveThreads(db, session, DOMAIN session)
  /\ io' = Some([op |-> "save_to_db", id |-> 0])
  /\ UNCHANGED <<session, now>>
  /\ StoreUnchanged

\* Thread::from_db(&db, id)
Load(id) ==
  /\ HasRow(db.thread, id) \/ id \in DOMAIN session
  /\ io' = Some([op |-> "load", id |-> id, result |-> from_db(db, id)])
  /\ UNCHANGED <<session, db, now>>
  /\ StoreUnchanged

\* Thread::get_all: every thread row is loaded, the first failure is returned
get_all(d) ==
  LET ids == {r.id : r \in d.thread} IN
  IF \E id \in ids : ~from_db(d, id).ok THEN [ok |-> FALSE, threads |-> <<>>]
  ELSE [ok |-> TRUE, threads |-> [id \in ids |-> from_db(d, id).thread[1]]]

\* Session::load_threads: the loaded threads replace the threads of the session
load_threads ==
  /\ session' = IF get_all(db).ok THEN get_all(db).threads ELSE session
  /\ io' = Some([op |-> "load_threads", id |-> 0, ok |-> get_all(db).ok])
  /\ UNCHANGED <<db, now>>
  /\ StoreUnchanged

\* thread.drop_from_db(&mut db)
Delete(id) ==
  /\ id \in DOMAIN session
  /\ db' = drop_from_db(db, id).db
  /\ io' = Some([op |-> "delete", id |-> id, result |-> drop_from_db(db, id).result,
                  existed |-> HasRow(db.thread, id)])
  /\ UNCHANGED <<session, now>>
  /\ StoreUnchanged

\* Role serialized with rename_all = "snake_case"
role_json(role) ==
  CASE role = "System" -> "system" [] role = "User" -> "user" [] role = "Assistant" -> "assistant"

\* serde_json::to_value(m): role and content, the other fields are skipped
message_json(m) == [role |-> role_json(m.role), content |-> m.content]

\* Thread::as_json_body
as_json_body(th) ==
  [model |-> th.model, messages |-> MapSeq(message_json, th.messages), stream |-> TRUE]

\* stream_thread_reply up to the spawn: the guard, then the request body
Request(id) ==
  /\ id \in DOMAIN session
  /\ stream_thread_reply(session[id].messages, TRUE)
  /\ io' = Some([op |-> "request", id |-> id, body |-> as_json_body(session[id])])
  /\ UNCHANGED <<session, db, now>>
  /\ StoreUnchanged

\* Thread::init_time: the timestamp of the first message
init_time(th) ==
  IF th.messages = <<>> THEN None ELSE Some(th.messages[1].timestamp)

\* the orders Session::ordered_threads can return: the non-empty threads,
\* sorted by init_time; the place of threads of equal init_time follows the
\* iteration order of the HashMap
ordered_threads(threads) ==
  LET ids == {id \in DOMAIN threads : threads[id].messages # <<>>} IN
  {o \in [1..Cardinality(ids) -> ids] :
     /\ \A i, j \in DOMAIN o : i # j => o[i] # o[j]
     /\ \A i, j \in DOMAIN o :
          i < j => init_time(threads[o[i]])[1] <= init_time(threads[o[j]])[1]}

\* the thread list is drawn
List ==
  /\ DOMAIN session # {}
  /\ \E o \in ordered_threads(session) :
       io' = Some([op |-> "list", id |-> 0, order |-> o])
  /\ UNCHANGED <<session, db, now>>
  /\ StoreUnchanged

InitStore ==
  /\ p_lines = <<>>
  /\ p_result = None
  /\ thread = NewThread(<<>>)
  /\ call_result = "none"
  /\ client_rx = 0
  /\ nstreams = 0
  /\ task = [s \in Streams |-> IdleTask]
  /\ app = NewApp
  /\ run = [state |-> "off", error |-> "none", raw_mode |-> FALSE, keys |-> 0, startups |-> 0, shutdowns |-> 0, dropped |-> 0]
  /\ meta = [summary |-> "none", title |-> "none"]
  /\ clipboard = None
  /\ shown = None
  /\ message = None
  /\ session = <<>>
  /\ db \in {EmptyDb, BadRoleDb, UnorderedDb}
  /\ io = None
  /\ now = 0

\* one thread of the session and the store
NextStore ==
  \/ Advance
  \/ new_thread_fresh(1)
  \/ SessionAddMessage(1)
  \/ SessionSetTitle(1)
  \/ SessionAddSummary(1)
  \/ Save(1)
  \/ save_to_db
  \/ \E id \in {ForeignId, 1} : Load(id)
  \/ load_threads
  \/ Delete(1)
  \/ Request(1)

SpecStore == InitStore /\ [][NextStore]_vars

InitSession ==
  /\ InitStore
  /\ db = EmptyDb

\* the threads of a session and their list
NextSession ==
  \/ Advance
  \/ \E id \in SessionIds : new_thread(id)
  \/ \E id \in SessionIds : SessionAddMessage(id)
  \/ List

SpecSession == InitSession /\ [][NextSession]_vars

----------------------------------------------------------------------------
(* Claims about the store *)

\* the message rows a store holds for message m of thread id
RowsOf(d, id, m) ==
  {i \in 1..Len(d.message) :
     /\ d.message[i].thread_id = id
     /\ d.message[i].role = to_num(m.role)
     /\ d.message[i].content = m.content
     /\ d.message[i].timestamp = m.timestamp}

\* C15: save is idempotent: saving a thread a second time right after a
\* save leaves the store as the first save left it; the number of message
\* rows of the thread is the same and no message gets a second row.
C15_SaveIdempotent ==
  \A id \in DOMAIN session :
    LET th == session[id]
        once == to_db(db, th, id)
        twice == to_db(once, th, id)
    IN /\ twice = once
       /\ Len(ThreadRows(twice, id)) = Len(ThreadRows(once, id))
       /\ \A i \in 1..Len(th.messages) :
            Cardinality(RowsOf(twice, id, th.messages[i]))
              = Cardinality(RowsOf(once, id, th.messages[i]))

\* a thread with a title, a summary and two messages was just saved, every
\* message has its row, and the clock has not moved since the last message
C15_Witness ==
  /\ io = Some([op |-> "save", id |-> 1])
  /\ 1 \in DOMAIN session
  /\ Len(session[1].messages) = 2
  /\ session[1].title # None
  /\ session[1].summaries # <<>>
  /\ Len(ThreadRows(db, 1)) = 2
  /\ session[1].messages[2].timestamp = now
  /\ db = to_db(db, session[1], 1)

\* what a reader of the thread sees of a message
Seen(m) == [role |-> m.role, content |-> m.content, timestamp |-> m.timestamp]

\* C16: load after save is a fixpoint: right after save(t), load(t.id)
\* returns a thread whose messages (role, content, millisecond timestamp, in
\* order), model, title and summaries are those of t, also when the title
\* was changed after an earlier save.
C16_LoadAfterSave ==
  \A id \in DOMAIN session :
    io = Some([op |-> "save", id |-> id]) =>
      LET r == from_db(db, id) IN
      /\ r.ok
      /\ MapSeq(Seen, r.thread[1].messages) = MapSeq(Seen, session[id].messages)
      /\ r.thread[1].model = session[id].model
      /\ r.thread[1].title = session[id].title
      /\ r.thread[1].summaries = session[id].summaries

\* C17: no committed message is lost: after a save that ends a sequence of
\* appends and saves, every message of the thread has a row in the store,
\* also a message whose millisecond timestamp equals the largest one stored.
C17_NoMessageLost ==
  \A id \in DOMAIN session :
    (io = Some([op |-> "save", id |-> id]) \/ io = Some([op |-> "save_to_db", id |-> 0])) =>
      \A i \in 1..Len(session[id].messages) :
        RowsOf(db, id, session[id].messages[i]) # {}

\* C18: after delete(id) no row of the message, title, summary or thread
\* table refers to id, and delete returns true exactly when a thread row for
\* id existed before the call.
C18_DeleteLeavesNoRows ==
  \A id \in DOMAIN session :
    (io # None /\ io[1].op = "delete" /\ io[1].id = id) =>
      /\ ThreadRows(db, id) = <<>>
      /\ ~HasRow(db.title, id)
      /\ ~HasRow(db.thread, id)
      /\ \A r \in db.summary : r.thread_id # id
      /\ io[1].result = (IF io[1].existed THEN "true" ELSE "false")

\* the ids a load can be asked for
LoadIds == {ForeignId} \cup SessionIds

\* ps names each row once
IsPerm(ps, n) == \A k \in 1..n : \E i \in 1..n : ps[i] = k

\* msgs are the rows, each once, by ascending stored timestamp
AscendingRows(msgs, rows) ==
  /\ Len(msgs) = Len(rows)
  /\ \E ps \in [1..Len(rows) -> 1..Len(rows)] :
       /\ IsPerm(ps, Len(rows))
       /\ \A i \in 1..Len(rows) :
            /\ to_num(msgs[i].role) = rows[ps[i]].role
            /\ msgs[i].content = rows[ps[i]].content
       /\ \A i, j \in 1..Len(rows) :
            i < j => rows[ps[i]].timestamp <= rows[ps[j]].timestamp
  /\ \A i, j \in 1..Len(msgs) : i < j => msgs[i].timestamp <= msgs[j].timestamp

----------------------------------------------------------------------------
(* Claims about the session *)

\* the timestamp of the first non-system message; the thread has one
FirstSent(th) == non_sys_messages(th)[1].timestamp

\* C20: ordered_threads returns exactly the non-empty threads, sorted
\* ascending by the timestamp of the first non-system message of each,
\* whatever the insertion order and the times of the System prompts.
C20_OrderedByFirstSent ==
  (/\ io # None
   /\ io[1].op = "list"
   /\ \A id \in DOMAIN session : non_sys_messages(session[id]) # <<>>) =>
     LET o == io[1].order IN
     /\ {o[i] : i \in DOMAIN o} = {id \in DOMAIN session : session[id].messages # <<>>}
     /\ \A i, j \in DOMAIN o : i # j => o[i] # o[j]
     /\ \A i, j \in DOMAIN o :
          i < j => FirstSent(session[o[i]]) <= FirstSent(session[o[j]])

----------------------------------------------------------------------------
(* Claims about the loop of the App, continued *)

\* C21: the terminal mode is paired: every App::startup is followed by
\* exactly one App::shutdown before the next startup and before run
\* returns, whether run ends by a quit, by an error of the loop, or goes
\* through the editor.
C21_TerminalPaired ==
  /\ run.startups - run.shutdowns \in {0, 1}
  /\ run.state \in {"quit", "error"} => run.startups = run.shutdowns


\* the App is about to run a pass of the loop with a reply receiver present
Receiving ==
  /\ run.state = "loop"
  /\ ~app.should_quit
  /\ app.reply_rx # 0

\* what the user typed, chose and asked for
UserState(a) ==
  <<a.user_message, a.copy_mode, a.copy_select_buf, a.selected_block_index,
    a.should_quit, a.should_show_editor>>

\* C26: while a reply receiver is present a terminal event is read and
\* dropped: the pass ends as it ends without the event; the input buffer,
\* the copy mode state, should_quit and should_show_editor stay as they
\* are, no User message is appended and no stream is started.
C26_InputDropped ==
  Receiving =>
    \A ev \in Events : \A c \in Choices(ev) :
      LET w == update(World, ev, c) IN
      /\ w = update(World, "none", c)
      /\ UserState(w.app) = UserState(app)
      /\ w.nstreams = nstreams
      /\ w.app.summary_rx => app.summary_rx
      /\ w.app.title_rx => app.title_rx
      /\ \A i \in 1..Len(w.thread.messages) :
           i > Len(thread.messages) => w.thread.messages[i].role = "Assistant"

\* an event was read and dropped while tokens came in
C26_Witness ==
  /\ Receiving
  /\ run.dropped > 0
  /\ thread.incoming # None
  /\ app.user_message = <<>>

LiveReply == {s \in Streams : task[s].pc \in {"spawned", "reading", "sending"}}

PendingMeta == {k \in {"summary", "title"} : meta[k] = "pending"}

\* C28: at most one reply task and at most one title or summary task are
\* live at any time; a send starts one reply task; a reply receiver is
\* present exactly when a reply stream is in flight.
C28_AtMostOneReplyTask ==
  /\ Cardinality(LiveReply) <= 1
  /\ Cardinality(PendingMeta) <= 1
  /\ LiveReply # {} => app.reply_rx \in LiveReply
  /\ nstreams <= Len(SelectSeq(thread.messages, is_user))

\* the world right after send_message appended the User message
Appended == [World EXCEPT !.thread = add_message(@, new_user(app.user_message))]

SummaryStarted(w) == w.app.summary_rx /\ w.meta.summary = "pending"
TitleStarted(w) == w.app.title_rx /\ w.meta.title = "pending"

\* the App composes, nothing is pending and the buffer holds a message
Sending ==
  /\ Composing("AltEnter")
  /\ app.user_message # <<>>
  /\ ~app.summary_rx
  /\ ~app.title_rx

WantsTitle(th) == thread_title(th) = None /\ Len(non_sys_messages(th)) >= 2

C30_MetaPoll ==
  (run.state = "loop" /\ app.summary_rx) =>
    \A late \in (IF meta.summary = "pending" THEN BOOLEAN ELSE {FALSE}) :
      LET w == PollSummary(World, late) IN
      CASE meta.summary = "value" ->
             /\ w.thread = add_summary(thread, SummaryVal)
             /\ ~w.app.summary_rx
             /\ w.err = "none"
        [] meta.summary = "pending" -> w = World
        [] meta.summary = "closed" -> w.err # "none"
        [] OTHER -> TRUE

----------------------------------------------------------------------------
(* Claims about the request body *)

\* the text that opens a summary message
SummaryPrefix ==
  <<"*", "*", "S", "u", "m", "m", "a", "r", "y", " ", "o", "f", " ", "e", "l", "i", "d",
    "e", "d", " ", "m", "e", "s", "s", "a", "g", "e", "s", ":", "*", "*", " ">>

\* the synthetic System message that stands for a summary
SummaryMessage(sm) == [role |-> "system", content |-> SummaryPrefix \o sm.content]

RECURSIVE Elided(_)
Elided(sms) == IF sms = <<>> THEN 0 ELSE (Head(sms).end - Head(sms).start) + Elided(Tail(sms))

\* C22: in the messages of the request body of a thread with summaries no
\* message of an elided range is left; each range is there as one
\* synthetic System summary message.
C22_SummarySubstitution ==
  \A id \in DOMAIN session :
    (io # None /\ io[1].op = "request" /\ io[1].id = id /\ session[id].summaries # <<>>) =>
      LET th == session[id]
          sent == io[1].body.messages
      IN /\ Len(sent) = Len(th.messages) - Elided(th.summaries) + Len(th.summaries)
         /\ \A k \in 1..Len(th.summaries) :
              Cardinality({i \in 1..Len(sent) : sent[i] = SummaryMessage(th.summaries[k])}) = 1

----------------------------------------------------------------------------
(* properties of the stream engine, continued *)

\* a line that decodes to a chunk whose delta has no content
NoContent(ln) == from_str(ln).kind = "Ok" /\ from_str(ln).chunk.content = None

Decodes(ls, n) == \A j \in 1..n : from_str(ls[j]).kind = "Ok"

WithContent(cs) == {k \in 1..Len(cs) : cs[k].content # None}

\* C24: a chunk whose delta.content is absent is parsed and consumed: the
\* parse goes on after it and does not fail for it, it is among the records
\* taken and not in the remainder kept for the next parse, and no item is
\* put on the channel for it.
C24_NoContentConsumed ==
  [][\A s \in Streams :
       IsReadStep(s) =>
         LET ls == input_lines(StepInput(s))
             r == try_parse_chunks(StepInput(s))
             got == Unwrap(r.chunks)
         IN \A i \in 1..Len(ls) :
              (NoContent(ls[i]) /\ Decodes(ls, i - 1)) =>
                /\ Decodes(ls, Len(ls)) => (~r.err /\ task'[s].pc # "failed")
                /\ ~r.err =>
                     /\ Len(got) >= i
                     /\ got[i].content = None
                     /\ task'[s].recs = task[s].recs \o got
                     /\ Len(task'[s].pending) = Cardinality(WithContent(got))
                     /\ input_lines(task'[s].buf) = SubSeq(ls, Len(got) + 1, Len(ls))
                        \/ (task'[s].buf = <<>> /\ ls[Len(got) + 1] = DoneLit)
                /\ task'[s].sent = task[s].sent
                /\ task'[s].chan = task[s].chan]_vars

\* a reply that held a chunk without content and a chunk with content ended
\* with the tokens of the others and the None
C24_Witness ==
  \E s \in Streams :
    /\ task[s].pc = "done"
    /\ \E i \in 1..Len(task[s].recs) : task[s].recs[i].content = None
    /\ WithContent(task[s].recs) # {}
    /\ Len(task[s].sent) = Cardinality(WithContent(task[s].recs)) + 1

\* C25: when the body ends without a [DONE] line the task sends the None
\* only if the remainder it carries is empty; with a remainder left it ends
\* as a failure, the channel closed without a None.
C25_EndNeedsEmptyRemainder ==
  \A s \in Streams :
    /\ (task[s].pc = "done" /\ task[s].buf # <<>>) =>
         \A i \in 1..Len(task[s].sent) : task[s].sent[i] # None
    /\ task[s].pc = "done" => task[s].buf = <<>>

----------------------------------------------------------------------------
(* Message: the fields update_blocks derives *)

MaxAppends == 2      \* tokens appended to a message

\* Message::update_blocks: code_blocks and non_code_content from content
update_blocks(m) ==
  [m EXCEPT !.code_blocks = BlocksFrom(m.content, 1),
            !.non_code_content = NonCode(m.content, 1)]

\* Message::new
Message_new(role, content) ==
  update_blocks([role |-> role, content |-> content, code_blocks |-> <<>>,
                 non_code_content |-> <<>>, appends |-> 0])

\* mutant: only the appended text is searched for blocks
Message_update_Appended(m, text) ==
  [m EXCEPT !.content = @ \o text,
            !.code_blocks = @ \o BlocksFrom(text, 1),
            !.non_code_content = @ \o NonCode(text, 1),
            !.appends = @ + 1]

\* Message::update: push_str, then update_blocks
Message_update(m, text) ==
  update_blocks([m EXCEPT !.content = @ \o text, !.appends = @ + 1])

\* texts a message starts with and tokens appended to it
OpenFence == Fence \o <<NL>>
CloseFence == <<"b", NL>> \o Fence
MsgTexts == { <<>>, PlainText, CodeText, OpenFence, CloseFence, BLOCK_MARKER }

\* Message::new_user, Message::new_asst
MessageNew ==
  /\ message = None
  /\ \E role \in {"User", "Assistant"} : \E text \in MsgTexts :
       message' = Some(Message_new(role, text))
  /\ UNCHANGED <<shown, parseVars, threadVars, clientVars, engineVars, appVars, storeVars>>

\* a token of the reply is appended
MessageUpdate ==
  /\ message # None
  /\ message[1].appends < MaxAppends
  /\ \E text \in MsgTexts \ {<<>>} :
       message' = Some(Message_update(message[1], text))
  /\ UNCHANGED <<shown, parseVars, threadVars, clientVars, engineVars, appVars, storeVars>>

InitMessage == InitStore /\ db = EmptyDb

NextMessage == MessageNew \/ MessageUpdate

SpecMessage == InitMessage /\ [][NextMessage]_vars

\* occurrences of the marker in a text, counted from the left
RECURSIVE Markers(_, _)
Markers(s, j) ==
  IF j + Len(BLOCK_MARKER) - 1 > Len(s) THEN 0
  ELSE IF SubSeq(s, j, j + Len(BLOCK_MARKER) - 1) = BLOCK_MARKER
    THEN 1 + Markers(s, j + Len(BLOCK_MARKER))
    ELSE Markers(s, j + 1)

\* the derived fields are those of the content
Derived(m) ==
  /\ m.code_blocks = BlocksFrom(m.content, 1)
  /\ m.non_code_content = NonCode(m.content, 1)
  /\ update_blocks(update_blocks(m)) = update_blocks(m)
  /\ update_blocks(m) = m

\* C23: whatever the content of a message and however it was built, the
\* code blocks and the non-code content are what update_blocks derives from
\* the whole content, deriving again changes nothing, and the non-code
\* content holds as many markers as there are code blocks.
C23_BlocksDerived ==
  message # None =>
    /\ Derived(message[1])
    /\ Markers(message[1].non_code_content, 1) = Len(message[1].code_blocks)

----------------------------------------------------------------------------
(* Claims about the messages of a thread *)

\* the timestamps of a message list never go down
Ascending(msgs) ==
  \A i \in 1..(Len(msgs) - 1) : msgs[i].timestamp <= msgs[i + 1].timestamp

\* C31: in every reachable state of every thread of the session, after any
\* interleaving of appended messages, saves and loads, the timestamps of the
\* committed messages are non-decreasing in list order
C31_TimestampsAscending ==
  \A id \in DOMAIN session : Ascending(session[id].messages)

\* load_threads has put into the session the thread whose rows were written
\* out of the order of their timestamps
C31_Witness ==
  /\ ForeignId \in DOMAIN session
  /\ Len(session[ForeignId].messages) = 2
  /\ session[ForeignId].messages[1].timestamp < session[ForeignId].messages[2].timestamp
  /\ io # None
  /\ io[1].op = "load_threads"

\* the rows of the thread were deleted from the store
RowsDeleted(d, id) == HasRow(d.thread, id) /\ ThreadRows(d, id) = <<>>

\* list a is the beginning of list b, message by message
SeenPrefix(a, b) ==
  /\ Len(a) <= Len(b)
  /\ \A i \in 1..Len(a) : Seen(a[i]) = Seen(b[i])

\* C33: the committed messages of a thread are append-only: over every step
\* of the session and the store other than the deletion of the thread, the
\* earlier list is a prefix of the later one, with the role, content and
\* timestamp of every message unchanged
C33_AppendOnly ==
  [][\A id \in DOMAIN session \cap DOMAIN session' :
       RowsDeleted(db, id) \/ SeenPrefix(session[id].messages, session'[id].messages)]_vars

\* C34: new_thread adds exactly one thread under an identifier the session
\* did not hold, whose only message is a System message with the prompt, and
\* leaves every thread the session already held unchanged, also when it
\* returns the "Thread ID was already present" error
C34_NewThreadFrame ==
  [][(io' # None /\ io'[1].op = "new_thread") =>
       LET id == io'[1].id IN
       /\ \A j \in DOMAIN session : j \in DOMAIN session' /\ session'[j] = session[j]
       /\ io'[1].ok =>
            /\ id \notin DOMAIN session
            /\ DOMAIN session' = DOMAIN session \cup {id}
            /\ MapSeq(Seen, session'[id].messages)
                 = <<[role |-> "System", content |-> Prompt, timestamp |-> now]>>
       /\ ~io'[1].ok => DOMAIN session' = DOMAIN session]_vars

\* C32: in every reachable state the thread holds at most one incoming
\* message, an incoming message has role Assistant, and an incoming message
\* is present only while the App holds a reply receiver
C32_IncomingWhileReceiving ==
  /\ Len(thread.incoming) <= 1
  /\ thread.incoming # None =>
       /\ thread.incoming[1].role = "Assistant"
       /\ app.reply_rx # 0

\* the loop is running with a reply half received
C32_Witness ==
  /\ run.state = "loop"
  /\ thread.incoming # None
  /\ thread.incoming[1].content # <<>>
  /\ app.reply_rx # 0
  /\ task[app.reply_rx].chan # <<>>

----------------------------------------------------------------------------
(* Claims about the reply channel *)

MaxOverflow == 2     \* tokens of the long reply beyond the capacity of the channel

\* a response body of n records, one on each line, with two tokens in turn
TwoLines == RecAB \o <<NL>> \o RecB \o <<NL>>
LongBody(n) ==
  [i \in 1..((n \div 2) * Len(TwoLines) + (n % 2) * (Len(RecAB) + 1)) |->
     TwoLines[((i - 1) % Len(TwoLines)) + 1]]

\* a reply longer than the channel
FlowBody == LongBody(ChanCap + MaxOverflow)

InitFlow ==
  /\ InitClient
  /\ thread = NewThread(Hist(<<"System", "User">>))

\* stream.next() yields bytes: the transport delivers one line at a time
ReadLine(s) ==
  /\ task[s].pc = "reading"
  /\ task[s].rest # <<>>
  /\ LET rest == task[s].rest
         k == CHOOSE k \in 1..Len(rest) :
                /\ rest[k] = NL \/ k = Len(rest)
                /\ \A j \in 1..(k - 1) : rest[j] # NL
     IN task' = [task EXCEPT ![s] = ParseStep(@, k)]
  /\ UNCHANGED <<nstreams, parseVars, threadVars, clientVars, appVars, dispVars, storeVars>>

\* one caller that receives at its own pace, and the task of its reply
NextFlow ==
  \/ ClientCall
  \/ ClientRecv
  \/ \E s \in Streams :
       \/ Respond(s, {FlowBody})
       \/ ReadLine(s)
       \/ ReadError(s)
       \/ SendToken(s)
       \/ EndOfBody(s)

SpecFlow == InitFlow /\ [][NextFlow]_vars

\* the items without the sentinel
IsToken(item) == item # None
TokensOf(items) == MapSeq(LAMBDA item : item[1], SelectSeq(items, IsToken))

\* list a is the end of list b
IsSuffix(a, b) ==
  /\ Len(a) <= Len(b)
  /\ a = SubSeq(b, Len(b) - Len(a) + 1, Len(b))

\* what the channel holds and has accepted, against what the parser returned
FlowKept(t) ==
  /\ Len(t.chan) <= ChanCap
  /\ IsSuffix(t.chan, t.sent)
  /\ t.pc \in {"reading", "sending", "done"} =>
       TokensOf(t.sent) \o t.pending = Tokens(t.recs)
  /\ t.pc = "done" => t.sent = MapSeq(LAMBDA x : Some(x), Tokens(t.recs)) \o <<None>>

\* C36: the reply channel never holds more than its capacity of 100 items;
\* while it is full the task sends nothing; and whatever the pace of the
\* receiver, the items accepted are the tokens of the records in order, each
\* once, and the queue is the end of what was accepted, so that the receiver
\* takes them in the order sent
C36_Backpressure ==
  /\ [](\A s \in Streams : FlowKept(task[s]))
  /\ [][\A s \in Streams :
         /\ (task[s].rx_alive /\ Len(task[s].chan) = ChanCap) =>
              task'[s].sent = task[s].sent
         /\ task'[s].chan # task[s].chan =>
              \/ /\ task[s].chan # <<>>
                 /\ task'[s].chan = Tail(task[s].chan)
                 /\ task'[s].sent = task[s].sent
              \/ /\ task'[s].chan = Append(task[s].chan, task'[s].sent[Len(task'[s].sent)])
                 /\ Len(task'[s].sent) = Len(task[s].sent) + 1]_vars

\* the channel is full, the receiver is alive and the task has a token to send
C36_Witness ==
  \E s \in Streams :
    /\ task[s].rx_alive
    /\ Len(task[s].chan) = ChanCap
    /\ task[s].pc = "sending"
    /\ task[s].pending # <<>>

\* the receiver of a started task is gone
Dropped(t) == t.pc # "unused" /\ ~t.rx_alive

\* C35: once the receiver of a reply is dropped, the channel accepts nothing
\* more: the next send the task attempts fails and ends the task, no later
\* token and no None is delivered, and an ended task stays ended
C35_Cancellation ==
  [][\A s \in Streams :
       Dropped(task[s]) =>
         /\ Dropped(task'[s])
         /\ task'[s].sent = task[s].sent
         /\ task'[s].chan = task[s].chan
         /\ (task[s].pc = "sending" /\ task'[s] # task[s]) =>
              (task'[s].pc = "failed" /\ task'[s].fail = "send")
         /\ (task[s].pc = "reading" /\ task[s].rest = <<>> /\ task'[s] # task[s]) =>
              task'[s].pc = "failed"
         /\ task'[s].pc = "done" => task[s].pc = "done"
         /\ task[s].pc \in {"done", "failed"} => task'[s] = task[s]]_vars

\* a task that had sent a token ended on a send after the receiver was dropped
C35_Witness ==
  \E s \in Streams :
    /\ Dropped(task[s])
    /\ task[s].pc = "failed"
    /\ task[s].fail = "send"
    /\ task[s].sent # <<>>
    /\ Len(task[s].sent) < Len(Tokens(task[s].recs))

----------------------------------------------------------------------------
(* Claims about quitting, copy mode and scrolling *)

\* the App is about to run a pass with no reply receiver, in compose or in
\* copy mode
NoReply ==
  /\ run.state \in {"start", "loop"}
  /\ ~app.should_quit
  /\ app.reply_rx = 0

\* C37: a Ctrl-C read with no reply in flight, in compose or in copy mode,
\* sets should_quit, which the rest of the pass keeps; should_quit never
\* becomes false again; and once it is set no further event is read and the
\* only step of the run is the end of the loop
C37_CtrlCQuits ==
  /\ [](NoReply =>
         \A c \in Choices("CtrlC") :
           LET w == update(World, "CtrlC", c) IN
           w.err = "none" =>
             /\ w.app.should_quit
             /\ AfterUpdate(w, c.edited).app.should_quit
             /\ FirstPass(w).app.should_quit)
  /\ [][app.should_quit =>
         /\ app'.should_quit
         /\ run'.keys = run.keys
         /\ run' # run => (run.state = "loop" /\ run'.state = "quit")]_vars

\* the run has ended after a Ctrl-C read in copy mode
C37_Witness ==
  /\ run.state = "quit"
  /\ run.shutdowns = 1
  /\ run.keys >= 2
  /\ app.should_quit
  /\ app.copy_mode

\* C38: every entry into copy mode starts with an empty digit buffer and no
\* selected block, whatever earlier copy-mode sessions did: Ctrl-W read in
\* compose mode leaves both empty, and Enter pressed next copies nothing
C38_CopyModeStartsClean ==
  (NoReply /\ ~app.copy_mode) =>
    \A c \in Choices("CtrlW") :
      LET w == update_awaiting_send(World, "CtrlW", c) IN
      /\ w.app.copy_mode
      /\ w.app.copy_select_buf = <<>>
      /\ w.app.selected_block_index = None
      /\ \A clip_ok \in BOOLEAN :
           /\ update_copy_mode(w, "Enter", clip_ok).clipboard = clipboard
           /\ update_copy_mode(w, "Enter", clip_ok).err = "none"

StepOf(ev) == IF ev \in {"Up", "Down"} THEN SCROLL_STEP ELSE SCROLL_STEP * 2

\* C40: the scroll offset is within 0..max_scroll() in every reachable
\* state, and with the text length and window height as the last draw left
\* them, a scroll event read at any offset within the range leaves it within
\* the range: up takes the step off and stops at 0, down adds it and stops at
\* max_scroll()
C40_ScrollWithinRange ==
  /\ 0 <= app.chat_scroll
  /\ app.chat_scroll <= max_scroll(app)
  /\ NoReply =>
       \A ev \in {"Up", "Down", "ScrollUp", "ScrollDown"} : \A c \in Choices(ev) :
         \A pos \in 0..max_scroll(app) :
           LET w == update_awaiting_send([World EXCEPT !.app.chat_scroll = pos], ev, c)
               new == w.app.chat_scroll
           IN /\ max_scroll(w.app) = max_scroll(app)
              /\ 0 <= new /\ new <= max_scroll(app)
              /\ ev \in {"Up", "ScrollUp"} =>
                   new = (IF pos >= StepOf(ev) THEN pos - StepOf(ev) ELSE 0)
              /\ ev \in {"Down", "ScrollDown"} =>
                   new = Min(pos + StepOf(ev), max_scroll(app))

\* the text is longer than the window and the user has scrolled up from the
\* bottom
C40_Witness ==
  /\ NoReply
  /\ run.keys >= 1
  /\ max_scroll(app) > 0
  /\ app.chat_scroll < max_scroll(app)

====
